---- MODULE Spec2Model ----
(***************************************************************************)
(* Browser Agent MCP server: the RPC bridge (sendToExtension and the       *)
(* WebSocket connection handlers) and the tool dispatcher                  *)
(* (CallToolRequestSchema handler) of src/mcp-server/src/index.ts; the     *)
(* action executor (handleMCPRequest) of src/extension/src/background/     *)
(* index.ts; and the debugging session (ExtensionTransport) of             *)
(* src/extension/src/cdp/transport.ts.                                     *)
(*                                                                         *)
(* The server runs on one Node.js event loop: each action below is one     *)
(* macrotask (a tool call up to its await, a socket event handler, a timer *)
(* callback) together with the promise continuations it releases, which    *)
(* run as microtasks before any other event is handled.                    *)
(***************************************************************************)
EXTENDS FiniteSets, Integers, Sequences, TLC

(* ------------------------------ bounds --------------------------------- *)

\* tool invocations made over the life of the process
MaxCalls == 2
\* WebSocket connections accepted over the life of the process
MaxConns == 2
\* characters of a text that is typed
MaxTextLen == 2
\* options of a select element
MaxOptions == 2
\* window.__agentsCCMaxLogs, 1000 in the program, scaled down
MaxLogs == 2
\* console calls and error events of the page
MaxOutputs == 4
\* calls of getConsoleLogs
MaxReads == 2
\* the calls of getActivePage followed
MaxPages == 2

(* ----------------------------- constants ------------------------------- *)

\* extensionClient = null
NoClient == 0

\* the id field of a call that never got a correlation id
NoId == ""

ConnectionErrorMessage ==
    "Browser extension not connected. Please open the extension side panel."

UnknownErrorMessage == "Unknown error"

\* `req_${n}`
RequestId(n) == "req_" \o ToString(n)

\* `Request timeout: ${action}`
TimeoutMessage(action) == "Request timeout: " \o action

(* --------------------------- JSON values ------------------------------- *)

\* payload.data absent (JavaScript undefined)
Undefined == [type |-> "undefined"]

\* a JSON string result
StringData == [type |-> "string", str |-> "done"]

\* a screenshot result object {image, width, height}
ImageData == [type |-> "object", image |-> "iVBORw0KGgo", width |-> 800, height |-> 600]

\* a screenshot result object whose image is empty
EmptyImageData == [type |-> "object", image |-> "", width |-> 800, height |-> 600]

\* the results a peer puts in payload.data
Data == {StringData, ImageData, EmptyImageData}

\* the strings a peer puts in payload.error
ErrorStrings == {"", "boom"}

\* JSON.stringify(result, null, 2)
JSONStringify(v) ==
    CASE v.type = "string" -> "\"" \o v.str \o "\""
      [] v.type = "object" ->
            "{\n  \"image\": \"" \o v.image \o "\",\n  \"width\": " \o ToString(v.width)
            \o ",\n  \"height\": " \o ToString(v.height) \o "\n}"

(* --------------------------- tool catalogue ---------------------------- *)

\* a property name every object literal inherits: mapping[toolName] and
\* OPERATION_STATUS[action] are a function, which is truthy, for such a name
ObjectPrototypeKeys == {"toString"}

\* an inherited function as a template literal or a message shows it
InheritedFunction(key) == "function " \o key \o "() { [native code] }"

\* the action field of a Request whose action JSON.stringify left out
OmittedAction == "(omitted)"

mapping ==
    [browser_navigate |-> "navigate",
     browser_click |-> "click",
     browser_type |-> "type",
     browser_scroll |-> "scroll",
     browser_screenshot |-> "screenshot",
     browser_extract |-> "extract",
     browser_evaluate |-> "evaluate",
     browser_get_page_info |-> "get_page_info",
     browser_get_tabs |-> "get_tabs",
     browser_switch_tab |-> "switch_tab",
     browser_press_key |-> "press_key",
     browser_select_option |-> "select_option",
     browser_go_back |-> "go_back",
     browser_go_forward |-> "go_forward",
     browser_reload |-> "reload"]

\* return mapping[toolName] || toolName: the lookup follows the prototype chain
\* of the object literal
getActionFromToolName(toolName) ==
    IF toolName \in DOMAIN mapping THEN mapping[toolName]
    ELSE IF toolName \in ObjectPrototypeKeys THEN InheritedFunction(toolName)
    ELSE toolName

\* JSON.stringify(request) leaves out a property whose value is a function
JSONAction(action) ==
    IF action \in {InheritedFunction(key) : key \in ObjectPrototypeKeys}
    THEN OmittedAction ELSE action

\* the tool names the client invokes: two of the catalogue and two outside it, one
\* of which is the name of the screenshot action itself
ToolNames == {"browser_screenshot", "browser_reload", "custom_tool", "screenshot"}

\* the tool name the client invokes where the connections are what is explored
BridgeToolNames == {"browser_screenshot"}

\* the tool names invoked where the forwarded action is what is explored: the
\* catalogue, the name of an executor action outside it, and an inherited name
ForwardedToolNames == DOMAIN mapping \cup {"ai_chat"} \cup ObjectPrototypeKeys

(* ------------------------- incoming messages --------------------------- *)

NoPayload == [present |-> FALSE, success |-> FALSE, data |-> Undefined, error |-> ""]

Payloads ==
    {NoPayload}
    \cup {[present |-> TRUE, success |-> TRUE, data |-> d, error |-> ""] : d \in Data}
    \cup {[present |-> TRUE, success |-> FALSE, data |-> Undefined, error |-> e] :
            e \in ErrorStrings}

\* the ids a peer puts in a message: every id the bridge can issue, and one it never issues
MessageIds == {RequestId(n) : n \in 0..MaxCalls}

\* data that JSON.parse rejects
Garbage == [parses |-> FALSE, type |-> "", id |-> NoId, payload |-> NoPayload]

Responses ==
    {[parses |-> TRUE, type |-> "RESPONSE", id |-> i, payload |-> p] :
        i \in MessageIds, p \in Payloads}

\* well-formed messages whose type is not RESPONSE
OtherMessages ==
    {[parses |-> TRUE, type |-> "REQUEST", id |-> i,
      payload |-> [present |-> TRUE, success |-> TRUE, data |-> StringData, error |-> ""]] :
        i \in MessageIds}

Messages == {Garbage} \cup Responses \cup OtherMessages

(* ------------------------------- state --------------------------------- *)

VARIABLES
    extensionClient,    \* NoClient or the connection in the slot
    readyState,         \* connection -> "NONE" (not accepted yet), "OPEN", "CLOSING", "CLOSED"
    requestIdCounter,
    pendingRequests,    \* id -> the call whose resolve, reject and timeout the entry holds
    calls,              \* the tool invocations so far, in order
    sent                \* the Requests transmitted, in order, each with its connection

\* the action executor
VARIABLES
    mcp                 \* the request handleMCPRequest is handling, and how far it is

bridgeVars == <<extensionClient, readyState, requestIdCounter, pendingRequests, calls, sent>>

executorVars == <<mcp>>

\* one ExtensionTransport and the host (chrome.debugger) it talks to
VARIABLES
    attached,        \* this.attached
    eventListeners,  \* this.eventListeners
    registered,      \* which of chrome.debugger.onEvent / onDetach hold this session's handler
    hostAttached,    \* the host has a debugger attached to this session's tab
    inflight,        \* the calls of attach, detach and send that await the host
    last             \* the step taken last: what it called, how it completed, whom it invoked

sessionVars == <<attached, eventListeners, registered, hostAttached, inflight, last>>

\* one Page on top of that transport
VARIABLES
    initialized,     \* this.initialized
    page,            \* the call of initialize() or close() under way, and how far it is
    wait             \* the promise of waitForNavigation() and its timer

pageVars == <<initialized, page, wait>>

\* the input methods of a Page, the document they act on and its console
VARIABLES
    input,           \* the call of clickAt, clickElement, type or typeInElement under way
    select,          \* the select element selectOption acts on, and what the call did
    console          \* the console of the page's window and what was read from it

documentVars == <<input, select, console>>

\* what the bridge's message handler was last called with
VARIABLES
    received         \* the connection whose 'message' event fired last, and what
                     \* its data was to the bridge at that moment

deliveryVars == <<received>>

\* the tab registry (BrowserContext), the Pages it created and the host's tabs
VARIABLES
    pages,           \* the registry: tab id -> the Page it holds
    activeTargetId,  \* the active pointer
    objects,         \* every Page constructed so far, with its transport's flags
    requests,        \* the calls of getActivePage so far, and how far each is
    removal,         \* tab id -> the call of removeClosedTab for it
    host             \* the host: open tabs, debugger of each tab, events not yet delivered

contextVars == <<pages, activeTargetId, objects, requests, removal, host>>

vars ==
    <<bridgeVars, executorVars, sessionVars, pageVars, documentVars, deliveryVars,
      contextVars>>

\* what the steps of each component leave alone
notBridge ==
    <<executorVars, sessionVars, pageVars, documentVars, deliveryVars, contextVars>>

notExecutor ==
    <<bridgeVars, sessionVars, pageVars, documentVars, deliveryVars, contextVars>>

notSession ==
    <<bridgeVars, executorVars, pageVars, documentVars, deliveryVars, contextVars>>

notPage ==
    <<bridgeVars, executorVars, documentVars, deliveryVars, contextVars>>

notInput ==
    <<bridgeVars, executorVars, sessionVars, pageVars, select, console, deliveryVars,
      contextVars>>

notSelect ==
    <<bridgeVars, executorVars, sessionVars, pageVars, input, console, deliveryVars,
      contextVars>>

notConsole ==
    <<bridgeVars, executorVars, sessionVars, pageVars, input, select, deliveryVars,
      contextVars>>

notDelivery == <<executorVars, sessionVars, pageVars, documentVars, contextVars>>

notContext ==
    <<bridgeVars, executorVars, sessionVars, pageVars, documentVars, deliveryVars>>

Conns == 1..MaxConns

\* connections are numbered in the order they are accepted
Accepted == {c \in Conns : readyState[c] # "NONE"}

\* new Map()
EmptyMap == [i \in {} |-> 0]

\* the reply field of a call whose entry no message has matched
NoMessage == [parses |-> FALSE, type |-> "none", id |-> NoId, payload |-> NoPayload]

\* no 'message' event has fired yet
NoDelivery == [conn |-> NoClient, class |-> "none"]

\* no MCP request has been received yet
NoRequest ==
    [pc |-> "idle", action |-> "", params |-> "", ops |-> <<>>, trace |-> <<>>,
     notified |-> <<>>, raised |-> <<>>, error |-> "", result |-> [kind |-> "none"]]

\* the callbacks a Page subscribes: the one-shot handler of waitForNavigation
\* and one that stays subscribed
Callbacks == {"handler", "callback"}

NoStep ==
    [step |-> "none", tab |-> 0, method |-> "", invoked |-> [cb \in Callbacks |-> 0],
     completion |-> "", error |-> "", hostCall |-> "none", hostError |-> ""]

\* no call of a Page method is under way
NoPageCall == [op |-> "none", pc |-> "idle", completion |-> "", error |-> ""]

\* waitForNavigation() has not been called
NoWait == [state |-> "none", timer |-> "none", settled |-> 0, error |-> ""]

\* no input method of the Page has been called
NoInput ==
    [method |-> "none", selector |-> "", x |-> 0, y |-> 0, text |-> <<>>,
     delay |-> Undefined, clearFirst |-> FALSE,
     todo |-> <<>>, issued |-> <<>>, completion |-> "", error |-> "", cause |-> ""]

\* no document is loaded and selectOption has not been called
NoSelect ==
    [loaded |-> FALSE, tagName |-> "", options |-> <<>>, selectedIndex |-> -1,
     before |-> -1, events |-> <<>>, selector |-> "", value |-> Undefined,
     text |-> Undefined, index |-> Undefined, completion |-> "", cause |-> "",
     returned |-> -1]

\* the window of a page that has just loaded: no collector, nothing written
NoConsole ==
    [installed |-> FALSE, wrappers |-> 0, logs |-> <<>>, produced |-> 0,
     appended |-> <<>>, evicted |-> {}, reads |-> <<>>, enabled |-> FALSE,
     afterEnable |-> {}]

\* this.tabId
tabId == 1

\* a tab another session debugs
OtherTabId == 2

Tabs == {tabId, OtherTabId}

\* the value of a Page variable that holds no Page
NoPage == 0

\* removeClosedTab has not been called for a tab
NoRemoval == [pc |-> "none", object |-> NoPage, hostError |-> ""]

\* the host when the extension starts: every tab open, no debugger attached, no
\* event on its way
NoHostEvents ==
    [open |-> Tabs, debuggee |-> [t \in Tabs |-> NoPage], events |-> {}]

Init ==
    /\ extensionClient = NoClient
    /\ readyState = [c \in Conns |-> "NONE"]
    /\ requestIdCounter = 0
    /\ pendingRequests = EmptyMap
    /\ calls = <<>>
    /\ sent = <<>>
    /\ mcp = NoRequest
    /\ attached = FALSE
    /\ eventListeners = {}
    /\ registered = {}
    /\ hostAttached = FALSE
    /\ inflight = {}
    /\ last = NoStep
    /\ initialized = FALSE
    /\ page = NoPageCall
    /\ wait = NoWait
    /\ input = NoInput
    /\ select = NoSelect
    /\ console = NoConsole
    /\ received = NoDelivery
    /\ pages = EmptyMap
    /\ activeTargetId = tabId
    /\ objects = <<>>
    /\ requests = <<>>
    /\ removal = [t \in Tabs |-> NoRemoval]
    /\ host = NoHostEvents

(* ------------------- Map and Promise, as the code uses them ------------ *)

\* Map.prototype.set: an existing key is overwritten
MapSet(m, key, v) == [i \in DOMAIN m \cup {key} |-> IF i = key THEN v ELSE m[i]]

\* Map.prototype.delete: an absent key is no error
MapDelete(m, key) == [i \in DOMAIN m \ {key} |-> m[i]]

NoResponse == [kind |-> "none"]

\* mutant of OnFulfilled: the tool name is not looked at, every result with an
\* image is emitted as image and caption
OnFulfilledAnyImage(name, result) ==
    IF result.type = "object" /\ result.image # ""
    THEN [kind |-> "return", isError |-> FALSE,
          content |-> <<[type |-> "image", data |-> result.image, mimeType |-> "image/png"],
                        [type |-> "text",
                         text |-> "Screenshot captured: " \o ToString(result.width)
                                  \o "x" \o ToString(result.height)]>>]
    ELSE [kind |-> "return", isError |-> FALSE,
          content |-> <<[type |-> "text", text |-> JSONStringify(result)]>>]

\* the dispatcher's return value on a fulfilled bridge call (try block after the await)
OnFulfilled(name, result) ==
    IF name = "browser_screenshot" /\ result.type = "object" /\ result.image # ""
    THEN [kind |-> "return", isError |-> FALSE,
          content |-> <<[type |-> "image", data |-> result.image, mimeType |-> "image/png"],
                        [type |-> "text",
                         text |-> "Screenshot captured: " \o ToString(result.width)
                                  \o "x" \o ToString(result.height)]>>]
    ELSE [kind |-> "return", isError |-> FALSE,
          content |-> <<[type |-> "text", text |-> JSONStringify(result)]>>]

\* mutant of OnRejected: the handler has no catch, the error leaves it
OnRejectedThrown(errorMessage) == [kind |-> "throw", message |-> errorMessage]

\* the dispatcher's return value on a rejected bridge call (catch block); every
\* rejection reason the bridge produces is an Error, so errorMessage is error.message
OnRejected(errorMessage) ==
    [kind |-> "return", isError |-> TRUE,
     content |-> <<[type |-> "text", text |-> "Error: " \o errorMessage]>>]

\* a tool invocation suspended on its bridge promise: the promise (state, value,
\* error), its timer, the dispatcher's return value (response), and the message
\* whose handler found the call's entry (reply)
NewCall(name, action, id, timer) ==
    [tool |-> name, action |-> action, id |-> id, state |-> "pending",
     value |-> Undefined, error |-> "", timer |-> timer, response |-> NoResponse,
     reply |-> NoMessage]

\* resolve(value) of a call's promise, then the dispatcher's continuation; a
\* promise settles once, later resolve and reject calls are ignored
Resolve(call, v) ==
    IF call.state = "pending"
    THEN [call EXCEPT !.state = "resolved", !.value = v,
                      !.response = OnFulfilled(call.tool, v)]
    ELSE call

\* reject(new Error(message)) of a call's promise, then the dispatcher's continuation
Reject(call, message) ==
    IF call.state = "pending"
    THEN [call EXCEPT !.state = "rejected", !.error = message,
                      !.response = OnRejected(message)]
    ELSE call

(* ------------------------------ actions -------------------------------- *)

\* mutant of IsConnected: the readyState of the slot's connection is not looked at
IsConnectedSlotOnly == extensionClient # NoClient

\* the guard of sendToExtension
IsConnected ==
    /\ extensionClient # NoClient
    /\ readyState[extensionClient] = "OPEN"

\* mutant of NextRequestId: the ids start again on every connection
NextRequestIdPerConnection ==
    RequestId(Cardinality({n \in 1..Len(sent) : sent[n].conn = extensionClient}) + 1)

\* const id = `req_${++requestIdCounter}`
NextRequestId == RequestId(requestIdCounter + 1)

\* a tool call from the MCP client: the dispatcher maps the name and calls
\* sendToExtension, which throws or registers, arms and transmits
CallTool(name) ==
    LET action == getActionFromToolName(name)
        k == Len(calls) + 1
        id == NextRequestId
    IN  /\ Len(calls) < MaxCalls
            /\ IF ~IsConnected
           THEN /\ calls' = Append(calls,
                        Reject(NewCall(name, action, NoId, "none"), ConnectionErrorMessage))
                /\ UNCHANGED <<requestIdCounter, pendingRequests, sent>>
           ELSE /\ requestIdCounter' = requestIdCounter + 1
                /\ calls' = Append(calls, NewCall(name, action, id, "armed"))
                /\ pendingRequests' = MapSet(pendingRequests, id, k)
                /\ sent' = Append(sent,
                        [conn |-> extensionClient,
                         msg |-> [type |-> "REQUEST", id |-> id,
                                  action |-> JSONAction(action)]])
        /\ UNCHANGED <<extensionClient, readyState>>

\* mutant of PendingAfterTimeout: the timeout callback leaves the entry in the map
PendingAfterTimeoutKept(id) == pendingRequests

\* pendingRequests.delete(id) of the timeout callback
PendingAfterTimeout(id) == MapDelete(pendingRequests, id)

\* the setTimeout callback of call k; it runs only while its timer is armed, a
\* cleared timer never fires
TimeoutCallback(k) ==
    /\ k \in 1..Len(calls)
    /\ calls[k].timer = "armed"
    /\ pendingRequests' = PendingAfterTimeout(calls[k].id)
    /\ calls' = [calls EXCEPT
                    ![k] = [Reject(calls[k], TimeoutMessage(calls[k].action))
                                EXCEPT !.timer = "fired"]]
    /\ UNCHANGED <<extensionClient, readyState, requestIdCounter, sent>>

\* mutant of RejectionMessage: the peer's error text is dropped
RejectionMessageGeneric(payload) == UnknownErrorMessage

\* message.payload.error || 'Unknown error'
RejectionMessage(payload) ==
    IF payload.error # "" THEN payload.error ELSE UnknownErrorMessage

\* the body of `if (pending)`: reading message.payload.success of a message
\* without payload throws a TypeError, which the handler's catch logs
SettleFromResponse(call, payload) ==
    IF ~payload.present THEN call
    ELSE IF payload.success THEN Resolve(call, payload.data)
    ELSE Reject(call, RejectionMessage(payload))

\* mutant of LookupKey: a Response is matched to the oldest pending call, by
\* arrival order
LookupKeyOldest(message) ==
    IF \E k \in 1..Len(calls) : calls[k].id \in DOMAIN pendingRequests
    THEN calls[CHOOSE k \in 1..Len(calls) :
                    /\ calls[k].id \in DOMAIN pendingRequests
                    /\ \A j \in 1..(k - 1) : calls[j].id \notin DOMAIN pendingRequests].id
    ELSE message.id

\* the key of pendingRequests.get(message.id) and pendingRequests.delete(message.id)
LookupKey(message) == message.id

\* mutant of ClearTimeout: the timer is left armed
ClearTimeoutSkipped(call) == call

\* clearTimeout(pending.timeout)
ClearTimeout(call) == [call EXCEPT !.timer = "cleared"]

\* mutant of OnMessage: only the connection in the slot is listened to
OnMessageFromSlot(ws, message) ==
    /\ readyState[ws] = "OPEN"
    /\ IF ws = extensionClient /\ message.parses /\ message.type = "RESPONSE"
            /\ message.id \in DOMAIN pendingRequests
       THEN LET k == pendingRequests[message.id]
            IN  /\ pendingRequests' = MapDelete(pendingRequests, message.id)
                /\ calls' = [calls EXCEPT
                        ![k] = SettleFromResponse(
                                    [ClearTimeout(calls[k]) EXCEPT !.reply = message],
                                    message.payload)]
       ELSE UNCHANGED <<pendingRequests, calls>>
    /\ UNCHANGED <<extensionClient, readyState, requestIdCounter, sent>>

\* ws.on('message') of connection ws; JSON.parse throwing on bad data, and reading
\* a property of a parsed null, end in the handler's catch
OnMessage(ws, message) ==
    /\ readyState[ws] = "OPEN"
    /\ IF message.parses /\ message.type = "RESPONSE"
            /\ LookupKey(message) \in DOMAIN pendingRequests
       THEN LET k == pendingRequests[LookupKey(message)]
            IN  /\ pendingRequests' = MapDelete(pendingRequests, LookupKey(message))
                /\ calls' = [calls EXCEPT
                        ![k] = SettleFromResponse(
                                    [ClearTimeout(calls[k]) EXCEPT !.reply = message],
                                    message.payload)]
       ELSE UNCHANGED <<pendingRequests, calls>>
    /\ UNCHANGED <<extensionClient, readyState, requestIdCounter, sent>>

\* mutant of SlotAfterConnection: a peer already in the slot is kept
SlotAfterConnectionKeepsFirst(ws) ==
    IF extensionClient = NoClient THEN ws ELSE extensionClient

\* extensionClient = ws
SlotAfterConnection(ws) == ws

\* wss.on('connection'): a new socket ws is accepted
OnConnection(ws) ==
    /\ readyState[ws] = "NONE"
    /\ \A c \in Conns : c < ws => readyState[c] # "NONE"
    /\ readyState' = [readyState EXCEPT ![ws] = "OPEN"]
    /\ extensionClient' = SlotAfterConnection(ws)
    /\ UNCHANGED <<requestIdCounter, pendingRequests, calls, sent>>

\* the closing handshake of ws starts: readyState leaves OPEN before 'close' is emitted
BeginClose(ws) ==
    /\ readyState[ws] = "OPEN"
    /\ readyState' = [readyState EXCEPT ![ws] = "CLOSING"]
    /\ UNCHANGED <<extensionClient, requestIdCounter, pendingRequests, calls, sent>>

\* mutant of SlotAfterClose: the close of any connection empties the slot
SlotAfterCloseAny(ws) == NoClient

\* mutant of SlotAfterClose: the slot is not cleared
SlotAfterCloseKept(ws) == extensionClient

\* if (extensionClient === ws) extensionClient = null
SlotAfterClose(ws) == IF extensionClient = ws THEN NoClient ELSE extensionClient

\* mutant of OnClose: closing the registered peer rejects the calls in flight
OnCloseCancelling(ws) ==
    /\ readyState[ws] \in {"OPEN", "CLOSING"}
    /\ readyState' = [readyState EXCEPT ![ws] = "CLOSED"]
    /\ extensionClient' = SlotAfterClose(ws)
    /\ pendingRequests' = IF extensionClient = ws THEN EmptyMap ELSE pendingRequests
    /\ calls' = [k \in 1..Len(calls) |->
                    IF extensionClient = ws /\ calls[k].id \in DOMAIN pendingRequests
                    THEN [Reject(calls[k], "Connection closed") EXCEPT !.timer = "cleared"]
                    ELSE calls[k]]
    /\ UNCHANGED <<requestIdCounter, sent>>

\* ws.on('close') of connection ws
OnClose(ws) ==
    /\ readyState[ws] \in {"OPEN", "CLOSING"}
    /\ readyState' = [readyState EXCEPT ![ws] = "CLOSED"]
    /\ extensionClient' = SlotAfterClose(ws)
    /\ UNCHANGED <<requestIdCounter, pendingRequests, calls, sent>>

\* ws.on('error') logs and changes no state: it is no action of the model

(* --------------------------- specifications --------------------------- *)

\* the bridge under every interleaving of connections, calls, messages and timers
Next ==
    \/ \E name \in BridgeToolNames : CallTool(name) /\ UNCHANGED notBridge
    \/ \E k \in 1..MaxCalls : TimeoutCallback(k) /\ UNCHANGED notBridge
    \/ \E ws \in Conns, message \in Messages :
            OnMessage(ws, message) /\ UNCHANGED notBridge
    \/ \E ws \in Conns : OnConnection(ws) /\ UNCHANGED notBridge
    \/ \E ws \in Conns : BeginClose(ws) /\ UNCHANGED notBridge
    \/ \E ws \in Conns : OnClose(ws) /\ UNCHANGED notBridge

Spec == Init /\ [][Next]_vars

\* the first connection accepted
FirstConn == CHOOSE c \in Conns : \A d \in Conns : c <= d

\* the dispatcher over the tool names, on the bridge during one connection's life
DispatchNext ==
    \/ \E name \in ToolNames : CallTool(name) /\ UNCHANGED notBridge
    \/ \E k \in 1..MaxCalls : TimeoutCallback(k) /\ UNCHANGED notBridge
    \/ \E message \in Messages : OnMessage(FirstConn, message) /\ UNCHANGED notBridge
    \/ OnConnection(FirstConn) /\ UNCHANGED notBridge
    \/ BeginClose(FirstConn) /\ UNCHANGED notBridge
    \/ OnClose(FirstConn) /\ UNCHANGED notBridge

DispatchSpec == Init /\ [][DispatchNext]_vars

\* the payloads of the Responses delivered where the deliveries are observed:
\* none, and a success with its data
DeliveredPayloads == {p \in Payloads : ~p.present \/ (p.success /\ p.data = StringData)}

\* the messages delivered there: unparsable data, Responses with every id the
\* bridge can issue and one it never issues, and messages of another type
DeliveredMessages ==
    {m \in Messages : m.type = "RESPONSE" => m.payload \in DeliveredPayloads}

\* the ids of the Requests transmitted so far
IssuedIds == {sent[n].msg.id : n \in 1..Len(sent)}

\* what a message is to the bridge when it arrives: data that does not parse, a
\* message of another type, or a Response whose id is pending ("matched"), was
\* issued and is pending no longer ("stale"), or was never issued ("unknown")
ClassOf(message) ==
    IF ~message.parses THEN "garbage"
    ELSE IF message.type # "RESPONSE" THEN "other"
    ELSE IF message.id \in DOMAIN pendingRequests THEN "matched"
    ELSE IF message.id \in IssuedIds THEN "stale"
    ELSE "unknown"

\* the dispatcher over every tool name, on one connection that never answers
ForwardNext ==
    \/ \E name \in ForwardedToolNames : CallTool(name) /\ UNCHANGED notBridge
    \/ \E k \in 1..MaxCalls : TimeoutCallback(k) /\ UNCHANGED notBridge
    \/ OnConnection(FirstConn) /\ UNCHANGED notBridge
    \/ OnClose(FirstConn) /\ UNCHANGED notBridge

ForwardSpec == Init /\ [][ForwardNext]_vars

\* ws.on('message') of connection ws, with what it was called with kept
Receive(ws, message) ==
    /\ OnMessage(ws, message)
    /\ received' = [conn |-> ws, class |-> ClassOf(message)]

\* the bridge with the deliveries of its message handler observed; a message
\* is delivered on an open connection only, so the closing handshake is left
\* to Next
DeliveryNext ==
    \/ \E name \in BridgeToolNames : CallTool(name) /\ UNCHANGED notBridge
    \/ \E k \in 1..MaxCalls : TimeoutCallback(k) /\ UNCHANGED notBridge
    \/ \E ws \in Conns, message \in DeliveredMessages :
            Receive(ws, message) /\ UNCHANGED notDelivery
    \/ \E ws \in Conns : OnConnection(ws) /\ UNCHANGED notBridge
    \/ \E ws \in Conns : OnClose(ws) /\ UNCHANGED notBridge

DeliverySpec == Init /\ [][DeliveryNext]_vars

(* ------------------------------- claims -------------------------------- *)

CallIds == 1..Len(calls)

\* the call added by this step, when the step is a tool call
NewestCall == calls'[Len(calls')]

IsCallStep == Len(calls') = Len(calls) + 1

\* no peer is connected: the slot is empty or its connection is not open
NoPeer == extensionClient = NoClient \/ readyState[extensionClient] # "OPEN"

\* C1: every correlation id issued belongs to one call, every entry of the
\* pending-request map sits under the id of the call it holds, a call's entry is
\* in the map exactly while neither its Response nor its timeout has acted, and
\* an entry removed by a Response (timer cleared, reply recorded) is never also
\* removed by its timeout (timer fired), nor the other way round.
C1_EntryRemovedOnce ==
    /\ \A j, k \in CallIds : (j # k /\ calls[j].id # NoId) => calls[j].id # calls[k].id
    /\ \A i \in DOMAIN pendingRequests :
            pendingRequests[i] \in CallIds /\ calls[pendingRequests[i]].id = i
    /\ \A k \in CallIds :
        /\ (calls[k].timer = "armed") <=> (calls[k].id \in DOMAIN pendingRequests)
        /\ (calls[k].timer = "cleared") <=> (calls[k].reply # NoMessage)
        /\ (calls[k].timer = "fired") =>
                calls[k].reply = NoMessage /\ calls[k].state = "rejected"
        /\ (calls[k].timer = "none") <=> (calls[k].id = NoId)

\* C1 witness: one entry was removed by its Response and another by its timeout
C1_Witness ==
    \E j, k \in CallIds : calls[j].timer = "cleared" /\ calls[k].timer = "fired"

\* C2: a tool call made while no peer is connected ends rejected with the
\* connection error, with no id, no timer, no pending entry added and nothing
\* transmitted; and a call rejected that way never changes afterwards, whatever
\* connects or arrives.
C2_NoPeerFailsFast ==
    [][/\ (IsCallStep /\ NoPeer) =>
            /\ NewestCall.state = "rejected"
            /\ NewestCall.error = ConnectionErrorMessage
            /\ NewestCall.id = NoId
            /\ NewestCall.timer = "none"
            /\ pendingRequests' = pendingRequests
            /\ requestIdCounter' = requestIdCounter
            /\ sent' = sent
       /\ \A k \in CallIds :
            calls[k].error = ConnectionErrorMessage =>
                /\ calls'[k] = calls[k]
                /\ \A i \in DOMAIN pendingRequests' : pendingRequests'[i] # k]_vars

\* C2 witness: a call was rejected for want of a peer, and a peer is connected now
C2_Witness ==
    \E k \in CallIds :
        /\ calls[k].error = ConnectionErrorMessage
        /\ extensionClient # NoClient
        /\ readyState[extensionClient] = "OPEN"

\* C3: a call whose timer fired is rejected with "Request timeout: " followed by
\* the action it sent, its id is not in the pending-request map, the dispatcher
\* has returned that error, and nothing that happens later (a Response with its
\* id included) changes the call or brings its id back into the map.
C3_TimeoutRejectsAndRemoves ==
    /\ [](\A k \in CallIds :
            calls[k].timer = "fired" =>
                /\ calls[k].state = "rejected"
                /\ calls[k].error = "Request timeout: " \o calls[k].action
                /\ calls[k].action = getActionFromToolName(calls[k].tool)
                /\ \E n \in 1..Len(sent) :
                        /\ sent[n].msg.id = calls[k].id
                        /\ sent[n].msg.action = calls[k].action
                /\ calls[k].id \notin DOMAIN pendingRequests)
    /\ [][\A k \in CallIds :
            calls[k].timer = "fired" =>
                /\ calls'[k] = calls[k]
                /\ calls[k].id \notin DOMAIN pendingRequests']_vars

\* C3 witness: a call timed out while another call, of another action, is pending
C3_Witness ==
    \E j, k \in CallIds :
        /\ calls[k].timer = "fired"
        /\ calls[j].timer = "armed"
        /\ calls[j].action # calls[k].action

\* a call settled as the reply recorded for it says, rejectionMessage being the
\* message a failure reply gives it
SettledAsReplied(call, rejectionMessage) ==
    /\ call.timer = "cleared"
    /\ call.reply.type = "RESPONSE"
    /\ call.id \notin DOMAIN pendingRequests
    /\ (call.reply.payload.present /\ call.reply.payload.success) =>
            call.state = "resolved" /\ call.value = call.reply.payload.data
    /\ (call.reply.payload.present /\ ~call.reply.payload.success) =>
            call.state = "rejected" /\ call.error = rejectionMessage

PayloadError(payload) == payload.error

PayloadErrorOrUnknown(payload) ==
    IF payload.error = "" THEN "Unknown error" ELSE payload.error

\* C4 as stated: a call whose entry a Response matched has its entry removed and
\* its timer cleared, is resolved with payload.data when payload.success is true,
\* and is rejected with a message that is exactly payload.error when
\* payload.success is false.
C4_Original_ExactPayloadError ==
    \A k \in CallIds :
        calls[k].reply # NoMessage =>
            SettledAsReplied(calls[k], PayloadError(calls[k].reply.payload))

\* C4 amended: as C4, but the rejection message is payload.error only when that
\* is a non-empty string; when payload.error is empty it is "Unknown error".
C4_ResponseSettles ==
    \A k \in CallIds :
        calls[k].reply # NoMessage =>
            SettledAsReplied(calls[k], PayloadErrorOrUnknown(calls[k].reply.payload))

\* C4 witness: one call was rejected with the peer's "boom", and another call was
\* rejected by a failure Response whose error is empty
C4_Witness ==
    \E j, k \in CallIds :
        /\ calls[j].reply # NoMessage
        /\ calls[j].reply.payload.error = "boom"
        /\ calls[j].error = "boom"
        /\ calls[k].reply # NoMessage
        /\ calls[k].reply.payload.present
        /\ ~calls[k].reply.payload.success
        /\ calls[k].reply.payload.error = ""

\* C5: a call is resolved only with the data of a Response that carried its own
\* id, and rejected by a Response only when that Response carried its own id:
\* the reply recorded for a call always has the call's id, whatever the order in
\* which Responses arrive.
C5_MatchedById ==
    \A k \in CallIds :
        /\ calls[k].reply # NoMessage => calls[k].reply.id = calls[k].id
        /\ calls[k].state = "resolved" =>
                /\ calls[k].reply.id = calls[k].id
                /\ calls[k].reply.payload.success
                /\ calls[k].value = calls[k].reply.payload.data

\* C5 witness: two calls were in flight, the later one has been resolved by its
\* Response while the earlier one still waits
C5_Witness ==
    \E j, k \in CallIds :
        /\ j < k
        /\ calls[j].timer = "armed"
        /\ calls[k].state = "resolved"

\* C6 as stated: a call whose id has left the pending-request map is settled
\* (resolved or rejected, with the dispatcher's response returned): no message
\* removes an entry and leaves its caller suspended.
C6_Original_RemovedMeansSettled ==
    \A k \in CallIds :
        (calls[k].id # NoId /\ calls[k].id \notin DOMAIN pendingRequests) =>
            calls[k].state \in {"resolved", "rejected"}

\* C7: the slot holds no connection or one accepted connection; a step that
\* accepts a connection leaves that connection in the slot, whatever the slot
\* held; and a step that transmits a Request appends exactly one Request, on the
\* connection the slot held when the call was made.
C7_SlotHoldsNewest ==
    /\ [](extensionClient \in {NoClient} \cup Accepted)
    /\ [][/\ \A ws \in Conns :
                (readyState[ws] = "NONE" /\ readyState'[ws] # "NONE") =>
                    extensionClient' = ws /\ readyState'[ws] = "OPEN"
          /\ sent' # sent =>
                /\ Len(sent') = Len(sent) + 1
                /\ SubSeq(sent', 1, Len(sent)) = sent
                /\ sent'[Len(sent')].conn = extensionClient
                /\ extensionClient # NoClient
                /\ extensionClient' = extensionClient]_vars

\* C7 witness: a second connection replaced an open first one in the slot, and
\* Requests were transmitted on the first before and on the second after
C7_Witness ==
    /\ extensionClient = 2
    /\ readyState[1] = "OPEN"
    /\ Len(sent) = 2
    /\ sent[1].conn = 1
    /\ sent[2].conn = 2

\* C8: a step that changes a connection's state or the slot (a connection
\* accepted, closing or closed) changes no pending entry and no call; and every
\* entry in the map, whatever became of the connection its Request went out on,
\* belongs to a suspended call whose timer is still armed.
C8_LifecycleKeepsCalls ==
    /\ [](\A i \in DOMAIN pendingRequests :
            /\ calls[pendingRequests[i]].state = "pending"
            /\ calls[pendingRequests[i]].timer = "armed")
    /\ [][(readyState' # readyState \/ extensionClient' # extensionClient) =>
            (pendingRequests' = pendingRequests /\ calls' = calls)]_vars

\* C8 witness: a call is pending, its timer armed, on a connection that has
\* closed and has been replaced in the slot
C8_Witness ==
    \E k \in CallIds, n \in 1..Len(sent) :
        /\ sent[n].msg.id = calls[k].id
        /\ readyState[sent[n].conn] = "CLOSED"
        /\ extensionClient \notin {NoClient, sent[n].conn}
        /\ calls[k].state = "pending"
        /\ calls[k].timer = "armed"
        /\ calls[k].id \in DOMAIN pendingRequests

\* C9: the close of the connection in the slot empties the slot; a tool call
\* made while the slot is empty is rejected at once with the connection error
\* and adds no pending entry; a tool call made while the slot holds an open
\* connection is transmitted on it and gets a pending entry.
C9_DisconnectClearsSlot ==
    [][/\ \A ws \in Conns :
            (extensionClient = ws /\ readyState[ws] # "CLOSED"
                /\ readyState'[ws] = "CLOSED") => extensionClient' = NoClient
       /\ (IsCallStep /\ extensionClient = NoClient) =>
            /\ NewestCall.state = "rejected"
            /\ NewestCall.error = ConnectionErrorMessage
            /\ NewestCall.response.isError
            /\ pendingRequests' = pendingRequests
       /\ (IsCallStep /\ ~NoPeer) =>
            /\ NewestCall.state = "pending"
            /\ NewestCall.id \in DOMAIN pendingRequests' \ DOMAIN pendingRequests
            /\ sent' = Append(sent,
                    [conn |-> extensionClient,
                     msg |-> [type |-> "REQUEST", id |-> NewestCall.id,
                              action |-> NewestCall.action]])]_vars

\* C9 witness: the first peer closed, a call then failed for want of a peer, a
\* new peer registered and the next call was transmitted on it
C9_Witness ==
    /\ readyState[1] = "CLOSED"
    /\ Len(calls) = 2
    /\ calls[1].error = ConnectionErrorMessage
    /\ calls[2].timer = "armed"
    /\ Len(sent) = 1
    /\ sent[1].conn = 2
    /\ sent[1].msg.id = calls[2].id

\* C10: the dispatcher never lets an error out: a call that is rejected (no
\* peer, timeout, failure Response) has returned an error-flagged response of
\* one text part, "Error: " followed by the error message; a resolved call has
\* returned a response that is not error-flagged; a suspended call has returned
\* nothing yet.
C10_DispatcherNeverThrows ==
    \A k \in CallIds :
        /\ calls[k].response.kind # "throw"
        /\ calls[k].state = "rejected" =>
            /\ calls[k].response.kind = "return"
            /\ calls[k].response.isError
            /\ calls[k].response.content =
                    <<[type |-> "text", text |-> "Error: " \o calls[k].error]>>
            /\ calls[k].error # ""
        /\ calls[k].state = "resolved" =>
            /\ calls[k].response.kind = "return"
            /\ ~calls[k].response.isError
        /\ calls[k].state = "pending" => calls[k].response = NoResponse

\* C10 witness: one tool call was returned as an error after a failure Response
\* and another, of a tool outside the catalogue, as a success
C10_Witness ==
    \E j, k \in CallIds :
        /\ calls[j].state = "rejected"
        /\ calls[j].reply # NoMessage
        /\ calls[j].response.isError
        /\ calls[k].state = "resolved"
        /\ calls[k].tool \notin DOMAIN mapping
        /\ ~calls[k].response.isError

\* the two-part response of a screenshot: the image, then the caption
IsImageAndCaption(response, result) ==
    /\ response.kind = "return"
    /\ ~response.isError
    /\ Len(response.content) = 2
    /\ response.content[1] =
            [type |-> "image", data |-> result.image, mimeType |-> "image/png"]
    /\ response.content[2].type = "text"
    /\ response.content[2].text =
            "Screenshot captured: " \o ToString(result.width) \o "x"
                \o ToString(result.height)

\* the single JSON text block
IsSingleTextBlock(response, result) ==
    /\ response.kind = "return"
    /\ ~response.isError
    /\ Len(response.content) = 1
    /\ response.content[1] = [type |-> "text", text |-> JSONStringify(result)]

HasImage(result) == result.type = "object" /\ result.image # ""

\* C11 as stated: a resolved call has returned the image and caption exactly when
\* the action it forwarded is the screenshot action and its result carries an
\* image, and a single text block otherwise.
C11_Original_ByAction ==
    \A k \in CallIds :
        calls[k].state = "resolved" =>
            IF calls[k].action = "screenshot" /\ HasImage(calls[k].value)
            THEN IsImageAndCaption(calls[k].response, calls[k].value)
            ELSE IsSingleTextBlock(calls[k].response, calls[k].value)

\* C11 amended: a resolved call has returned the image and caption (image part
\* first, caption "Screenshot captured: <width>x<height>" second) exactly when
\* the tool invoked is browser_screenshot and its result carries a non-empty
\* image; every other resolved call, a browser_screenshot result with an empty
\* image included, has returned a single text block.
C11_ImageByToolName ==
    \A k \in CallIds :
        calls[k].state = "resolved" =>
            IF calls[k].tool = "browser_screenshot" /\ HasImage(calls[k].value)
            THEN IsImageAndCaption(calls[k].response, calls[k].value)
            ELSE IsSingleTextBlock(calls[k].response, calls[k].value)

\* C11 witness: a browser_screenshot call returned image and caption, and a call
\* of another tool whose result carries an image returned one text block
C11_Witness ==
    \E j, k \in CallIds :
        /\ calls[j].tool = "browser_screenshot"
        /\ calls[j].state = "resolved"
        /\ Len(calls[j].response.content) = 2
        /\ calls[k].tool # "browser_screenshot"
        /\ calls[k].state = "resolved"
        /\ HasImage(calls[k].value)
        /\ Len(calls[k].response.content) = 1

(***************************************************************************)
(* The action executor: handleMCPRequest, executeAction, showOverlay and   *)
(* hideOverlay of src/extension/src/background/index.ts.  One request is   *)
(* followed from its arrival to the value handleMCPRequest returns; each   *)
(* action is the code between two awaits.                                  *)
(***************************************************************************)

OPERATION_STATUS ==
    [navigate |-> "Navigating...",
     click |-> "Clicking element...",
     type |-> "Typing text...",
     scroll |-> "Scrolling page...",
     screenshot |-> "Taking screenshot...",
     extract |-> "Extracting content...",
     evaluate |-> "Executing script...",
     ai_chat |-> "AI thinking...",
     ai_generate |-> "AI generating..."]

\* mutant of HasOperationStatus: no action has a status
HasOperationStatusNever(action) == FALSE

\* if (OPERATION_STATUS[action])
HasOperationStatus(action) ==
    action \in DOMAIN OPERATION_STATUS \/ action \in ObjectPrototypeKeys

\* the cases of the switch of executeAction, each with the error it throws when
\* its required parameter is missing ("" when it requires none) and the
\* operations it awaits, in order, when its parameters are given (click and type
\* by selector, scroll by direction)
Cases ==
    [navigate |-> [required |-> "URL is required",
                   ops |-> <<"navigateTo", "waitForNavigation", "getPageInfo">>],
     click |-> [required |-> "selector or coordinates required",
                ops |-> <<"clickElement">>],
     type |-> [required |-> "text is required", ops |-> <<"typeInElement">>],
     scroll |-> [required |-> "", ops |-> <<"scroll">>],
     screenshot |-> [required |-> "", ops |-> <<"captureScreenshot", "getViewportSize">>],
     extract |-> [required |-> "selector is required", ops |-> <<"evaluate">>],
     evaluate |-> [required |-> "script is required", ops |-> <<"evaluate">>],
     get_page_info |-> [required |-> "", ops |-> <<"getPageInfo">>],
     get_tabs |-> [required |-> "", ops |-> <<"getAllTabsInfo">>],
     switch_tab |-> [required |-> "tabId is required", ops |-> <<"switchToTab">>],
     press_key |-> [required |-> "key is required", ops |-> <<"pressKey">>],
     select_option |-> [required |-> "selector is required", ops |-> <<"selectOption">>],
     go_back |-> [required |-> "", ops |-> <<"goBack">>],
     go_forward |-> [required |-> "", ops |-> <<"goForward">>],
     reload |-> [required |-> "", ops |-> <<"reload">>],
     ai_config |-> [required |-> "provider and apiKey are required",
                    ops |-> <<"saveAIConfig">>],
     ai_get_config |-> [required |-> "", ops |-> <<"getAIConfig">>],
     ai_clear_config |-> [required |-> "", ops |-> <<"clearAIConfig">>],
     ai_chat |-> [required |-> "prompt is required", ops |-> <<"aiService.chat">>],
     ai_generate |-> [required |-> "messages array is required",
                      ops |-> <<"aiService.generateText">>]]

\* the action names a request carries: every case, one name that is no case, and
\* one inherited property name
Actions == DOMAIN Cases \cup {"fly"} \cup ObjectPrototypeKeys

\* the parameters of a request: what the action requires is given, or nothing is
Params == {"given", "missing"}

\* how an overlay notification goes: delivered to the content script, not sent
\* because there is no active tab, or failing in chrome.tabs
Notifications == {"delivered", "noActiveTab", "fails"}

OverlayErrorMessage == "Could not establish connection. Receiving end does not exist."

\* the message of the error an operation raises
OperationErrorMessage(op) ==
    IF op = "waitForNavigation" THEN "Navigation timeout" ELSE op \o " failed"

\* `Unknown action: ${action}`
UnknownActionMessage(action) == "Unknown action: " \o action

\* mutant of ShowOverlayCompletion: showOverlay has no try/catch
ShowOverlayCompletionUncaught(notification) ==
    IF notification = "fails" THEN "thrown" ELSE "returned"

\* showOverlay: whatever the notification does, the try/catch makes it return
ShowOverlayCompletion(notification) == "returned"

\* mutant of HideOverlayCompletion: hideOverlay has no try/catch
HideOverlayCompletionUncaught(notification) ==
    IF notification = "fails" THEN "thrown" ELSE "returned"

\* hideOverlay: whatever the notification does, the try/catch makes it return
HideOverlayCompletion(notification) == "returned"

\* await page.waitForNavigation().catch(() => {})
IsSwallowed(action, op) == action = "navigate" /\ op = "waitForNavigation"

\* the catch block entered with an error: error.message is kept for the result
Caught(request, message) == [request EXCEPT !.pc = "catchHide", !.error = message]

\* { success: true, data: result }
SuccessResult(action) == [kind |-> "returned", success |-> TRUE, data |-> action, error |-> ""]

\* { success: false, error: error.message }
FailureResult(message) ==
    [kind |-> "returned", success |-> FALSE, data |-> "", error |-> message]

\* the promise of handleMCPRequest rejected
Rejected(message) == [kind |-> "rejected", success |-> FALSE, data |-> "", error |-> message]

\* executeAction returned: the overlay is hidden when the action has a status
AfterExecute(request) ==
    IF HasOperationStatus(request.action)
    THEN [request EXCEPT !.pc = "hide"]
    ELSE [request EXCEPT !.pc = "done", !.result = SuccessResult(request.action)]

\* chrome.runtime.onMessage delivers an MCP_REQUEST: handleMCPRequest runs up to
\* its first await
HandleMCPRequest(action, params) ==
    /\ mcp.pc \in {"idle", "done"}
    /\ mcp' = [NoRequest EXCEPT
                !.action = action, !.params = params,
                !.pc = IF HasOperationStatus(action) THEN "show" ELSE "getActivePage"]

\* await showOverlay(OPERATION_STATUS[action])
ShowOverlay(notification) ==
    /\ mcp.pc = "show"
    /\ LET shown == [mcp EXCEPT !.trace = Append(@, "show"),
                                !.notified = Append(@, notification)]
       IN  mcp' = IF ShowOverlayCompletion(notification) = "returned"
                  THEN [shown EXCEPT !.pc = "getActivePage"]
                  ELSE Caught(shown, OverlayErrorMessage)

\* const page = await browserContext.getActivePage(), then the switch up to the
\* first operation it awaits
GetActivePage(ok) ==
    /\ mcp.pc = "getActivePage"
    /\ LET got == [mcp EXCEPT !.trace = Append(@, "getActivePage")]
       IN  mcp' =
            IF ~ok
            THEN Caught([got EXCEPT !.raised = Append(@, "getActivePage")],
                        OperationErrorMessage("getActivePage"))
            ELSE IF mcp.action \notin DOMAIN Cases
            THEN Caught(got, UnknownActionMessage(mcp.action))
            ELSE IF mcp.params = "missing" /\ Cases[mcp.action].required # ""
            THEN Caught(got, Cases[mcp.action].required)
            ELSE [got EXCEPT !.pc = "operation", !.ops = Cases[mcp.action].ops]

\* the operation the action awaits next settles: fulfilled, or rejected with its error
Operation(ok) ==
    /\ mcp.pc = "operation"
    /\ LET op == Head(mcp.ops)
           ran == [mcp EXCEPT !.trace = Append(@, op), !.ops = Tail(@),
                              !.raised = IF ok THEN @ ELSE Append(@, op)]
       IN  mcp' =
            IF ~ok /\ ~IsSwallowed(mcp.action, op)
            THEN Caught(ran, OperationErrorMessage(op))
            ELSE IF ran.ops = <<>> THEN AfterExecute(ran)
            ELSE ran

\* await hideOverlay() after executeAction returned, inside the try
HideOverlay(notification) ==
    /\ mcp.pc = "hide"
    /\ LET hidden == [mcp EXCEPT !.trace = Append(@, "hide"),
                                 !.notified = Append(@, notification)]
       IN  mcp' = IF HideOverlayCompletion(notification) = "returned"
                  THEN [hidden EXCEPT !.pc = "done", !.result = SuccessResult(mcp.action)]
                  ELSE Caught(hidden, OverlayErrorMessage)

\* await hideOverlay() in the catch block, then the failure result
CatchHideOverlay(notification) ==
    /\ mcp.pc = "catchHide"
    /\ LET hidden == [mcp EXCEPT !.trace = Append(@, "hide"), !.pc = "done",
                                 !.notified = Append(@, notification)]
       IN  mcp' = IF HideOverlayCompletion(notification) = "returned"
                  THEN [hidden EXCEPT !.result = FailureResult(mcp.error)]
                  ELSE [hidden EXCEPT !.result = Rejected(OverlayErrorMessage)]

ExecutorNext ==
    \/ \E action \in Actions, params \in Params :
            HandleMCPRequest(action, params) /\ UNCHANGED notExecutor
    \/ \E notification \in Notifications : ShowOverlay(notification) /\ UNCHANGED notExecutor
    \/ \E ok \in BOOLEAN : GetActivePage(ok) /\ UNCHANGED notExecutor
    \/ \E ok \in BOOLEAN : Operation(ok) /\ UNCHANGED notExecutor
    \/ \E notification \in Notifications : HideOverlay(notification) /\ UNCHANGED notExecutor
    \/ \E notification \in Notifications :
            CatchHideOverlay(notification) /\ UNCHANGED notExecutor

ExecutorSpec == Init /\ [][ExecutorNext]_vars

\* every await of the handler settles: the host answers and timers fire
ExecutorFairSpec == ExecutorSpec /\ WF_vars(ExecutorNext)

(***************************************************************************)
(* Claims about the action executor                                        *)
(***************************************************************************)

Range(seq) == {seq[i] : i \in DOMAIN seq}

Count(seq, x) == Cardinality({i \in DOMAIN seq : seq[i] = x})

Answered == mcp.pc = "done"

\* the messages of the errors raised while the request ran: the operations that
\* rejected, the missing parameter, the unknown action
RaisedMessages ==
    {OperationErrorMessage(op) : op \in Range(mcp.raised)}
        \cup (IF mcp.action \in DOMAIN Cases
              THEN IF mcp.params = "missing" THEN {Cases[mcp.action].required} \ {""} ELSE {}
              ELSE {UnknownActionMessage(mcp.action)})

\* C12: handleMCPRequest never rejects: for every action and parameters it
\* returns either {success: true, data} or {success: false, error} where error
\* is the message of an error raised while the request ran; an unknown action
\* and a missing required parameter fail with their own message once the active
\* page was obtained, and a failure to obtain the page fails with its message.
C12_AlwaysStructuredResult ==
    Answered =>
        /\ mcp.result.kind = "returned"
        /\ mcp.result.success => mcp.result.error = "" /\ mcp.result.data = mcp.action
        /\ ~mcp.result.success => mcp.result.error \in RaisedMessages
        /\ mcp.raised = <<>> /\ mcp.action \notin DOMAIN Cases
            => ~mcp.result.success /\ mcp.result.error = "Unknown action: " \o mcp.action
        /\ mcp.raised = <<>> /\ mcp.action \in DOMAIN Cases /\ mcp.params = "missing"
            /\ Cases[mcp.action].required # ""
            => ~mcp.result.success /\ mcp.result.error = Cases[mcp.action].required
        /\ mcp.raised = <<"getActivePage">>
            => ~mcp.result.success /\ mcp.result.error = "getActivePage failed"

\* an unknown action answered with the failure result while the notification
\* that hides the overlay failed
C12_Witness ==
    /\ Answered
    /\ mcp.action = "fly"
    /\ mcp.notified = <<"fails">>
    /\ mcp.result = FailureResult("Unknown action: fly")

\* C13 as stated: every error an operation raises while the action executes
\* makes the result a failed one.
C13_Original_EveryErrorFails ==
    Answered /\ mcp.raised # <<>> => ~mcp.result.success

\* the action ran to the end: the page was obtained, every operation of its case
\* was awaited, and none raised but the navigation wait of navigate
ExecutionCompleted ==
    /\ mcp.action \in DOMAIN Cases
    /\ "getActivePage" \in Range(mcp.trace)
    /\ Range(Cases[mcp.action].ops) \subseteq Range(mcp.trace)
    /\ Range(mcp.raised) \subseteq
            (IF mcp.action = "navigate" THEN {"waitForNavigation"} ELSE {})

\* C14: a failing show or hide notification never changes the outcome: the
\* result is a success exactly when the action ran to the end, its error is
\* never the notification's, and after a failed show the action is still
\* executed.
C14_OverlayNeverChangesOutcome ==
    Answered =>
        /\ mcp.result.kind = "returned"
        /\ mcp.result.success <=> ExecutionCompleted
        /\ mcp.result.error # OverlayErrorMessage
        /\ mcp.trace # <<>> /\ mcp.trace[1] = "show"
            => Len(mcp.trace) >= 2 /\ mcp.trace[2] = "getActivePage"

\* a click that succeeded although both notifications failed
C14_Witness ==
    /\ Answered
    /\ mcp.action = "click"
    /\ mcp.notified = <<"fails", "fails">>
    /\ mcp.trace = <<"show", "getActivePage", "clickElement", "hide">>
    /\ mcp.result = SuccessResult("click")

SlowActions == {"navigate", "click", "type", "scroll", "screenshot", "extract", "evaluate"}

\* the request of a slow action: show comes first, nothing is done after the
\* hide, and there is one of each
C15_Bracketed ==
    mcp.action \in SlowActions =>
        /\ mcp.pc # "show" => mcp.trace # <<>> /\ mcp.trace[1] = "show"
        /\ Count(mcp.trace, "show") <= 1
        /\ Count(mcp.trace, "hide") <= 1
        /\ Answered => mcp.trace[Len(mcp.trace)] = "hide"
        /\ "hide" \in Range(mcp.trace) => Answered

C15_Shown == mcp.action \in SlowActions /\ "show" \in Range(mcp.trace)

C15_Hidden == mcp.action \in SlowActions /\ "hide" \in Range(mcp.trace)

\* C15: for each slow action the show notification is issued before the action
\* starts and the hide notification after it finished, on the success and the
\* failure path alike, and every show is eventually followed by a hide.
C15_ShowThenHide == []C15_Bracketed /\ (C15_Shown ~> C15_Hidden)

\* a navigate that failed in navigateTo and a hide was issued after it
C15_Witness ==
    /\ Answered
    /\ mcp.action = "navigate"
    /\ mcp.trace = <<"show", "getActivePage", "navigateTo", "hide">>
    /\ ~mcp.result.success

(***************************************************************************)
(* The session transport: ExtensionTransport of                            *)
(* src/extension/src/cdp/transport.ts and the host it drives.  A call that *)
(* awaits the host is two steps, the call and the continuation after the   *)
(* host's reply; the host handles a command and replies in one step, and   *)
(* its replies and events arrive in the order it sent them.  One call of   *)
(* each of attach, detach and send is followed at a time.                  *)
(***************************************************************************)

Methods == {"Page.loadEventFired", "Network.requestWillBeSent"}

\* the handler of Page.waitForNavigation unsubscribes itself when it is invoked
\* with Page.loadEventFired
OneShot == {"handler"}

NotAttachedMessage == "Debugger not attached"

\* what chrome.debugger reports for a tab it cannot or may not attach to
HostAttachDenied == "Cannot attach to this target"

\* what chrome.debugger reports for a tab no debugger is attached to
HostNotAttached == "Debugger is not attached to the tab"

HostCommandFailed == "{\"code\":-32000,\"message\":\"command failed\"}"

Handlers == {"onEvent", "onDetach"}

Step(step, completion, error, hostCall, hostError) ==
    [NoStep EXCEPT !.step = step, !.completion = completion, !.error = error,
                   !.hostCall = hostCall, !.hostError = hostError]

\* mutant of AttachReturnsEarly: attach without its guard
AttachReturnsEarlyNever(isAttached) == FALSE

\* if (this.attached) return;
AttachReturnsEarly(isAttached) == isAttached

\* mutant of AfterAttachDenied: the flag is set before the host answered
AfterAttachDeniedFlagged(isAttached) == TRUE

\* await chrome.debugger.attach(...) rejected: the lines after it do not run
AfterAttachDenied(isAttached) == isAttached

\* mutant of DetachCompletion: no try/catch around chrome.debugger.detach
DetachCompletionUncaught(hostOk) == IF hostOk THEN "resolved" ELSE "rejected"

\* try { await chrome.debugger.detach(...) } catch (e) { }
DetachCompletion(hostOk) == "resolved"

\* mutant of SendForwards: send without its guard
SendForwardsAlways(isAttached) == TRUE

\* if (!this.attached) throw new Error('Debugger not attached')
SendForwards(isAttached) == isAttached

\* mutant of FromThisTab: the handlers without their filter
FromAnyTab(source) == TRUE

\* if (source.tabId !== this.tabId) return;
FromThisTab(source) == source = tabId

\* attach() up to its await
Attach ==
    /\ "attach" \notin inflight
    /\ IF AttachReturnsEarly(attached)
       THEN /\ last' = Step("attach", "resolved", "", "none", "")
            /\ UNCHANGED inflight
       ELSE /\ last' = Step("attach", "pending", "", "attach", "")
            /\ inflight' = inflight \cup {"attach"}
    /\ UNCHANGED <<attached, eventListeners, registered, hostAttached>>

\* the host answers chrome.debugger.attach and attach() goes on: the host denies
\* a tab that has a debugger already, and may deny any other
AttachSettles(granted) ==
    /\ "attach" \in inflight
    /\ granted => ~hostAttached
    /\ inflight' = inflight \ {"attach"}
    /\ IF granted
       THEN /\ hostAttached' = TRUE
            /\ attached' = TRUE
            /\ registered' = registered \cup Handlers
            /\ last' = Step("attachSettled", "resolved", "", "none", "")
       ELSE /\ attached' = AfterAttachDenied(attached)
            /\ last' = Step("attachSettled", "rejected", HostAttachDenied, "none",
                            HostAttachDenied)
            /\ UNCHANGED <<registered, hostAttached>>
    /\ UNCHANGED eventListeners

\* detach() up to its await
Detach ==
    /\ "detach" \notin inflight
    /\ IF ~attached
       THEN /\ last' = Step("detach", "resolved", "", "none", "")
            /\ UNCHANGED <<registered, inflight>>
       ELSE /\ registered' = registered \ Handlers
            /\ inflight' = inflight \cup {"detach"}
            /\ last' = Step("detach", "pending", "", "detach", "")
    /\ UNCHANGED <<attached, eventListeners, hostAttached>>

\* the host answers chrome.debugger.detach and detach() goes on: the host
\* rejects when no debugger is attached to the tab
DetachSettles ==
    /\ "detach" \in inflight
    /\ inflight' = inflight \ {"detach"}
    /\ hostAttached' = FALSE
    /\ LET completion == DetachCompletion(hostAttached)
           hostError == IF hostAttached THEN "" ELSE HostNotAttached
       IN  /\ attached' = IF completion = "resolved" THEN FALSE ELSE attached
           /\ last' = Step("detachSettled", completion,
                           IF completion = "resolved" THEN "" ELSE hostError,
                           "none", hostError)
    /\ UNCHANGED <<eventListeners, registered>>

\* send(method, params) up to its await
Send ==
    /\ "send" \notin inflight
    /\ IF SendForwards(attached)
       THEN /\ last' = Step("send", "pending", "", "sendCommand", "")
            /\ inflight' = inflight \cup {"send"}
       ELSE /\ last' = Step("send", "rejected", NotAttachedMessage, "none", "")
            /\ UNCHANGED inflight
    /\ UNCHANGED <<attached, eventListeners, registered, hostAttached>>

\* the host answers chrome.debugger.sendCommand: with a result, with the failure
\* of the command, or with the error of a tab that has no debugger
SendSettles(ok) ==
    /\ "send" \in inflight
    /\ ok => hostAttached
    /\ inflight' = inflight \ {"send"}
    /\ LET hostError == IF ok THEN ""
                        ELSE IF hostAttached THEN HostCommandFailed ELSE HostNotAttached
       IN  last' = Step("sendSettled", IF ok THEN "resolved" ELSE "rejected",
                        hostError, "none", hostError)
    /\ UNCHANGED <<attached, eventListeners, registered, hostAttached>>

\* on(callback)
On(callback) ==
    /\ eventListeners' = eventListeners \cup {callback}
    /\ last' = Step("on", "", "", "none", "")
    /\ UNCHANGED <<attached, registered, hostAttached, inflight>>

\* off(callback)
Off(callback) ==
    /\ eventListeners' = eventListeners \ {callback}
    /\ last' = Step("off", "", "", "none", "")
    /\ UNCHANGED <<attached, registered, hostAttached, inflight>>

\* chrome.debugger.onEvent fires for a tab that has a debugger: handleEvent runs
\* when it is registered
HandleEvent(source, method) ==
    /\ source = tabId => hostAttached
    /\ LET invoked == [cb \in Callbacks |->
                        IF "onEvent" \in registered /\ FromThisTab(source)
                           /\ cb \in eventListeners
                        THEN 1 ELSE 0]
       IN  /\ last' = [NoStep EXCEPT !.step = "event", !.tab = source,
                                     !.method = method, !.invoked = invoked]
           /\ eventListeners' =
                IF method = "Page.loadEventFired"
                THEN eventListeners \ {cb \in OneShot : invoked[cb] > 0}
                ELSE eventListeners
    /\ UNCHANGED <<attached, registered, hostAttached, inflight>>

\* the host detaches the debugger of a tab on its own and chrome.debugger.onDetach
\* fires: handleDetach runs when it is registered
HandleDetach(source) ==
    /\ source = tabId => hostAttached
    /\ hostAttached' = IF source = tabId THEN FALSE ELSE hostAttached
    /\ attached' = IF "onDetach" \in registered /\ FromThisTab(source)
                   THEN FALSE ELSE attached
    /\ last' = [NoStep EXCEPT !.step = "forcedDetach", !.tab = source]
    /\ UNCHANGED <<eventListeners, registered, inflight>>

SessionNext ==
    \/ Attach /\ UNCHANGED notSession
    \/ \E granted \in BOOLEAN : AttachSettles(granted) /\ UNCHANGED notSession
    \/ Detach /\ UNCHANGED notSession
    \/ DetachSettles /\ UNCHANGED notSession
    \/ Send /\ UNCHANGED notSession
    \/ \E ok \in BOOLEAN : SendSettles(ok) /\ UNCHANGED notSession
    \/ \E callback \in Callbacks : On(callback) /\ UNCHANGED notSession
    \/ \E callback \in Callbacks : Off(callback) /\ UNCHANGED notSession
    \/ \E source \in Tabs, method \in Methods :
            HandleEvent(source, method) /\ UNCHANGED notSession
    \/ \E source \in Tabs : HandleDetach(source) /\ UNCHANGED notSession

SessionSpec == Init /\ [][SessionNext]_vars

(***************************************************************************)
(* Claims about the session transport                                      *)
(***************************************************************************)

\* the step is a call of attach(), detach() or send(), or the continuation of
\* one after the host's reply
IsSessionStep(step) == last'.step = step

\* C16: attach() is idempotent: on an Attached session it returns at once,
\* leaves the session Attached and calls nothing of the host; on a Detached
\* session it issues one host attach, and once that is granted the session is
\* Attached, so the second of two calls in a row finds it Attached and the host
\* attach was issued exactly once.
C16_AttachIdempotent ==
    [][/\ IsSessionStep("attach") /\ attached
            => /\ attached'
               /\ last'.completion = "resolved"
               /\ last'.hostCall = "none"
               /\ UNCHANGED <<registered, hostAttached, inflight>>
       /\ IsSessionStep("attach") /\ ~attached
            => last'.hostCall = "attach" /\ "attach" \notin inflight
       /\ IsSessionStep("attachSettled") /\ last'.completion = "resolved"
            => attached' /\ "attach" \notin inflight']_vars

\* attach() was called on the Attached session and returned without a host call
C16_Witness ==
    /\ last.step = "attach"
    /\ last.completion = "resolved"
    /\ last.hostCall = "none"
    /\ attached
    /\ hostAttached
    /\ inflight = {}

\* C17: detach() never raises and ends with the session Detached: on a Detached
\* session it returns at once without a host call; on an Attached session it
\* calls the host's detach and, whatever the host answers (also that no debugger
\* is attached), resolves with the session Detached.
C17_DetachNeverRaises ==
    [][/\ IsSessionStep("detach") /\ ~attached
            => /\ ~attached'
               /\ last'.completion = "resolved"
               /\ last'.hostCall = "none"
               /\ UNCHANGED <<registered, hostAttached, inflight>>
       /\ IsSessionStep("detach") /\ attached
            => last'.hostCall = "detach" /\ last'.completion = "pending"
       /\ IsSessionStep("detachSettled")
            => ~attached' /\ last'.completion = "resolved" /\ last'.error = ""]_vars

\* detach() resolved, Detached, although the host reported that no debugger was
\* attached
C17_Witness ==
    /\ last.step = "detachSettled"
    /\ last.hostError = HostNotAttached
    /\ last.completion = "resolved"
    /\ ~attached

\* no call of detach() awaits the host
NoDetachInFlight == "detach" \notin inflight

C19_DeniedAttachChangesNothing ==
    [][/\ IsSessionStep("attachSettled") /\ last'.completion = "rejected"
            => /\ last'.error = last'.hostError
               /\ last'.error # ""
               /\ ~attached /\ ~attached'
               /\ UNCHANGED <<registered, eventListeners, hostAttached>>
               /\ "attach" \notin inflight'
       /\ IsSessionStep("send") /\ ~attached /\ ~attached'
            => last'.completion = "rejected" /\ last'.error = NotAttachedMessage
       /\ IsSessionStep("attach") /\ ~attached /\ "attach" \notin inflight
            => last'.hostCall = "attach" /\ "attach" \in inflight']_vars

\* the host denied the attach of a tab no debugger is attached to: Detached, no
\* handler registered
C19_Witness ==
    /\ last.step = "attachSettled"
    /\ last.completion = "rejected"
    /\ last.error = HostAttachDenied
    /\ ~attached
    /\ ~hostAttached
    /\ registered = {}

\* C20: an event reaches the subscribers of a session only when its source is
\* the session's tab: an event of another tab invokes no callback; an event of
\* this tab, received while the session's handler is registered with the host,
\* invokes every callback subscribed at that moment once; a callback that is not
\* subscribed (never was, or was removed with off) is not invoked.
C20_EventsFilteredByTab ==
    [][IsSessionStep("event")
        => \A cb \in Callbacks :
            /\ last'.tab # tabId => last'.invoked[cb] = 0
            /\ cb \notin eventListeners => last'.invoked[cb] = 0
            /\ last'.tab = tabId /\ "onEvent" \in registered /\ cb \in eventListeners
                => last'.invoked[cb] = 1]_vars

\* an event of this tab invoked the one callback still subscribed, once, and not
\* the other
C20_Witness ==
    /\ last.step = "event"
    /\ last.tab = tabId
    /\ last.method = "Network.requestWillBeSent"
    /\ eventListeners = {"callback"}
    /\ last.invoked = [cb \in Callbacks |-> IF cb = "callback" THEN 1 ELSE 0]

(***************************************************************************)
(* The Page: initialize, close and waitForNavigation of                    *)
(* src/extension/src/cdp/transport.ts, on top of the transport above.  The *)
(* Page is the only caller of its transport here, so the call under way is *)
(* followed in page instead of inflight; one call of initialize() or       *)
(* close() and one waitForNavigation() are followed at a time.             *)
(***************************************************************************)

PageCall(op, pc, completion, error) ==
    [op |-> op, pc |-> pc, completion |-> completion, error |-> error]

\* initialize() up to its first await that the host has to answer
Initialize ==
    /\ page.pc = "idle"
    /\ IF initialized
       THEN page' = PageCall("initialize", "idle", "resolved", "")
       ELSE IF AttachReturnsEarly(attached)
       THEN page' = IF SendForwards(attached)
                    THEN PageCall("initialize", "enabling", "pending", "")
                    ELSE PageCall("initialize", "idle", "rejected", NotAttachedMessage)
       ELSE page' = PageCall("initialize", "attaching", "pending", "")
    /\ UNCHANGED <<initialized, wait, sessionVars>>

\* the host answers chrome.debugger.attach: attach() goes on and, when it
\* resolved, initialize() sends Page.enable, DOM.enable and Runtime.enable
InitializeAttachSettles(granted) ==
    /\ page.pc = "attaching"
    /\ granted => ~hostAttached
    /\ IF granted
       THEN /\ hostAttached' = TRUE
            /\ attached' = TRUE
            /\ registered' = registered \cup Handlers
            /\ page' = PageCall("initialize", "enabling", "pending", "")
       ELSE /\ attached' = AfterAttachDenied(attached)
            /\ page' = PageCall("initialize", "idle", "rejected", HostAttachDenied)
            /\ UNCHANGED <<registered, hostAttached>>
    /\ UNCHANGED <<initialized, wait, eventListeners, inflight, last>>

\* the host answered the three commands of Promise.all: all with a result, or
\* one with an error
InitializeEnableSettles(ok) ==
    /\ page.pc = "enabling"
    /\ ok => hostAttached
    /\ IF ok
       THEN /\ initialized' = TRUE
            /\ page' = PageCall("initialize", "idle", "resolved", "")
       ELSE /\ page' = PageCall("initialize", "idle", "rejected",
                                IF hostAttached THEN HostCommandFailed ELSE HostNotAttached)
            /\ UNCHANGED initialized
    /\ UNCHANGED <<wait, sessionVars>>

\* close() up to the await of detach() that the host has to answer
Close ==
    /\ page.pc = "idle"
    /\ IF ~initialized
       THEN /\ page' = PageCall("close", "idle", "resolved", "")
            /\ UNCHANGED <<initialized, registered>>
       ELSE IF ~attached
       THEN /\ initialized' = FALSE
            /\ page' = PageCall("close", "idle", "resolved", "")
            /\ UNCHANGED registered
       ELSE /\ registered' = registered \ Handlers
            /\ page' = PageCall("close", "detaching", "pending", "")
            /\ UNCHANGED initialized
    /\ UNCHANGED <<wait, attached, eventListeners, hostAttached, inflight, last>>

\* the host answers chrome.debugger.detach: detach() and close() go on
CloseSettles ==
    /\ page.pc = "detaching"
    /\ hostAttached' = FALSE
    /\ LET completion == DetachCompletion(hostAttached)
       IN  /\ attached' = IF completion = "resolved" THEN FALSE ELSE attached
           /\ initialized' = IF completion = "resolved" THEN FALSE ELSE initialized
           /\ page' = PageCall("close", "idle", completion,
                               IF completion = "resolved" THEN "" ELSE HostNotAttached)
    /\ UNCHANGED <<wait, eventListeners, registered, inflight, last>>

\* mutant of ClearNavigationTimer: the handler without clearTimeout(timer)
ClearNavigationTimerSkipped(timer) == timer

\* clearTimeout(timer)
ClearNavigationTimer(timer) == "cleared"

\* resolve() or reject() of the promise: only the first call settles it
Settle(w, state, error) ==
    [w EXCEPT !.settled = @ + 1,
              !.state = IF w.state = "pending" THEN state ELSE @,
              !.error = IF w.state = "pending" THEN error ELSE @]

\* waitForNavigation(): the executor of the promise arms the timer and
\* subscribes the handler
WaitForNavigation ==
    /\ wait.state # "pending"
    /\ wait.timer # "armed"
    /\ wait' = [NoWait EXCEPT !.state = "pending", !.timer = "armed"]
    /\ eventListeners' = eventListeners \cup OneShot
    /\ UNCHANGED <<initialized, page, attached, registered, hostAttached, inflight, last>>

\* chrome.debugger.onEvent fires: handleEvent, and the handler of
\* waitForNavigation when handleEvent invokes it
WaitHandleEvent(source, method) ==
    /\ HandleEvent(source, method)
    /\ wait' = IF \E cb \in OneShot : last'.invoked[cb] > 0
                  /\ method = "Page.loadEventFired"
               THEN Settle([wait EXCEPT !.timer = ClearNavigationTimer(@)], "resolved", "")
               ELSE wait
    /\ UNCHANGED <<initialized, page>>

\* the timer of waitForNavigation fires
WaitTimeout ==
    /\ wait.timer = "armed"
    /\ eventListeners' = eventListeners \ OneShot
    /\ wait' = Settle([wait EXCEPT !.timer = "fired"], "rejected", "Navigation timeout")
    /\ UNCHANGED <<initialized, page, attached, registered, hostAttached, inflight, last>>

PageNext ==
    \/ Initialize /\ UNCHANGED notPage
    \/ \E granted \in BOOLEAN : InitializeAttachSettles(granted) /\ UNCHANGED notPage
    \/ \E ok \in BOOLEAN : InitializeEnableSettles(ok) /\ UNCHANGED notPage
    \/ Close /\ UNCHANGED notPage
    \/ CloseSettles /\ UNCHANGED notPage
    \/ \E source \in Tabs : HandleDetach(source) /\ UNCHANGED <<pageVars, notPage>>
    \/ WaitForNavigation /\ UNCHANGED notPage
    \/ \E source \in Tabs, method \in Methods :
            WaitHandleEvent(source, method) /\ UNCHANGED notPage
    \/ WaitTimeout /\ UNCHANGED notPage

PageSpec == Init /\ [][PageNext]_vars

(***************************************************************************)
(* Claims about the Page                                                   *)
(***************************************************************************)

\* C21 as stated: the Page's initialized flag is true only while its session
\* is Attached, in every reachable state.
C21_Original_InitializedOnlyWhileAttached == initialized => attached

\* C22: waitForNavigation subscribes exactly one handler; it resolves on the
\* first Page.loadEventFired of its tab that the session receives and rejects
\* with "Navigation timeout" when its timer fires first; resolve or reject is
\* called once, so never both; while it is pending the handler is subscribed and
\* the timer armed, and once it settled the handler is unsubscribed, which
\* leaves the subscribers as they were before the call.
C22_WaitSettlesOnceAndUnsubscribes ==
    /\ [](/\ wait.settled <= 1
          /\ wait.state = "pending"
                => wait.settled = 0 /\ wait.timer = "armed" /\ OneShot \subseteq eventListeners
          /\ wait.state = "resolved"
                => /\ wait.settled = 1 /\ wait.timer = "cleared"
                   /\ eventListeners \cap OneShot = {}
          /\ wait.state = "rejected"
                => /\ wait.settled = 1 /\ wait.timer = "fired"
                   /\ wait.error = "Navigation timeout"
                   /\ eventListeners \cap OneShot = {})
    /\ [][/\ wait'.state = "pending" /\ wait.state # "pending"
                => /\ Cardinality(eventListeners') = Cardinality(eventListeners) + 1
                   /\ eventListeners \subseteq eventListeners'
          /\ wait.state = "pending" /\ wait'.state # "pending"
                => eventListeners' = eventListeners \ OneShot
          /\ wait.state = "pending" /\ wait'.state = "resolved"
                => /\ last'.step = "event"
                   /\ last'.tab = tabId
                   /\ last'.method = "Page.loadEventFired"
                   /\ last'.invoked["handler"] = 1
          /\ (wait.state = "pending" /\ last' # last /\ last'.step = "event"
                /\ last'.tab = tabId /\ last'.method = "Page.loadEventFired"
                /\ "onEvent" \in registered)
                => wait'.state = "resolved"
          /\ wait.state = "pending" /\ wait'.state = "rejected" => wait'.timer = "fired"]_vars

\* the wait resolved on a load event of its tab; its timer never fired and its
\* handler is gone
C22_Witness ==
    /\ wait.state = "resolved"
    /\ wait.timer = "cleared"
    /\ last.step = "event"
    /\ last.tab = tabId
    /\ last.method = "Page.loadEventFired"
    /\ last.invoked["handler"] = 1
    /\ eventListeners = {}

(***************************************************************************)
(* The input methods of the Page: clickAt, clickElement, type and          *)
(* typeInElement of src/extension/src/cdp/transport.ts.  One call is       *)
(* followed: the commands and pauses it has issued so far, in order, and   *)
(* those it will issue if the ones before them complete.                   *)
(***************************************************************************)

\* the elements of the document, by the selectors that match them, with the
\* rectangle getBoundingClientRect returns
Elements ==
    [s \in {"#search", "a[href='/x']"} |->
        IF s = "#search"
        THEN [left |-> 100, top |-> 200, width |-> 40, height |-> 20]
        ELSE [left |-> 10, top |-> 30, width |-> 60, height |-> 16]]

Selectors == DOMAIN Elements \cup {"#missing"}

\* the selectors that hold the character '
SelectorsWithQuote == {"a[href='/x']", "select[name='c']"}

Coordinates == {<<120, 210>>, <<5, 7>>}

Chars == {"h", "i"}

\* text: the strings of 1..MaxTextLen characters, as their characters
Texts == UNION {[1..n -> Chars] : n \in 1..MaxTextLen}

Number(n) == [type |-> "number", num |-> n]

\* the delay argument: omitted, 0 or 50
Delays == {Undefined, Number(0), Number(50)}

\* what evaluate throws: new Error(result.exceptionDetails.text)
ExceptionText == "Uncaught"

NoCommand ==
    [command |-> "", type |-> "", x |-> 0, y |-> 0, text |-> <<>>, ms |-> 0,
     script |-> "", selector |-> ""]

\* send('Input.dispatchMouseEvent', {type, x, y, ...})
DispatchMouseEvent(type, x, y) ==
    [NoCommand EXCEPT !.command = "Input.dispatchMouseEvent", !.type = type, !.x = x, !.y = y]

\* send('Input.insertText', {text})
InsertText(text) == [NoCommand EXCEPT !.command = "Input.insertText", !.text = text]

\* this.sleep(ms)
Sleep(ms) == [NoCommand EXCEPT !.command = "sleep", !.ms = ms]

\* this.evaluate(script) with one of the scripts built around a selector
Evaluate(script, selector) ==
    [NoCommand EXCEPT !.command = "Runtime.evaluate", !.script = script,
                      !.selector = selector]

\* mutant of ClickAtCommands: the press before the move
ClickAtCommandsPressFirst(x, y) ==
    <<DispatchMouseEvent("mousePressed", x, y), DispatchMouseEvent("mouseMoved", x, y),
      DispatchMouseEvent("mouseReleased", x, y)>>

\* clickAt(x, y): the three sends, each awaited
ClickAtCommands(x, y) ==
    <<DispatchMouseEvent("mouseMoved", x, y), DispatchMouseEvent("mousePressed", x, y),
      DispatchMouseEvent("mouseReleased", x, y)>>

\* the default parameter delay = 0: undefined takes the default
DelayParameter(delay) == IF delay.type = "undefined" THEN 0 ELSE delay.num

\* for (const char of text) { await send insertText(char); await sleep(delay) }
RECURSIVE TypeEachChar(_, _)
TypeEachChar(text, ms) ==
    IF text = <<>> THEN <<>>
    ELSE <<InsertText(<<Head(text)>>), Sleep(ms)>> \o TypeEachChar(Tail(text), ms)

\* mutant of TypeCommands: the whole text in one command whatever the delay
TypeCommandsBulk(text, delay) == <<InsertText(text)>>

\* type(text, delay)
TypeCommands(text, delay) ==
    IF DelayParameter(delay) = 0 THEN <<InsertText(text)>>
    ELSE TypeEachChar(text, DelayParameter(delay))

\* mutant of TypeInElementCommands: the clear before the click
TypeInElementCommandsClearBeforeClick(selector, text, clearFirst, delay) ==
    (IF clearFirst THEN <<Evaluate("clear", selector)>> ELSE <<>>)
        \o <<Evaluate("center", selector)>> \o TypeCommands(text, delay)

\* typeInElement(selector, text, {clearFirst, delay}): clickElement, the clear
\* script if (options.clearFirst), type
TypeInElementCommands(selector, text, clearFirst, delay) ==
    <<Evaluate("center", selector)>>
        \o (IF clearFirst THEN <<Evaluate("clear", selector)>> ELSE <<>>)
        \o TypeCommands(text, delay)

\* the script of clickElement run in the page: the value it returns or the
\* exception it ends with.  The selector is spliced unescaped into the
\* single-quoted literal 'Element not found: ${selector}', so with a ' in it
\* the script does not parse
ClickElementScript(selector) ==
    IF selector \in SelectorsWithQuote
    THEN [exception |-> "SyntaxError", x |-> 0, y |-> 0]
    ELSE IF selector \notin DOMAIN Elements
    THEN [exception |-> "Element not found", x |-> 0, y |-> 0]
    ELSE [exception |-> "",
          x |-> Elements[selector].left + Elements[selector].width \div 2,
          y |-> Elements[selector].top + Elements[selector].height \div 2]

\* the first command of todo is issued
IssueNext(call) ==
    IF call.todo = <<>>
    THEN [call EXCEPT !.completion = "resolved"]
    ELSE [call EXCEPT !.issued = Append(@, Head(call.todo)), !.todo = Tail(@)]

\* a method is called: it runs up to its first await
Call(method, commands) ==
    IssueNext([NoInput EXCEPT !.method = method, !.todo = commands,
                              !.completion = "pending"])

\* the awaited command threw: the method rejects and issues nothing more
Throw(call, message, cause) ==
    [call EXCEPT !.completion = "rejected", !.error = message, !.cause = cause,
                 !.todo = <<>>]

ClickAt(x, y) ==
    /\ input.completion # "pending"
    /\ input' = [Call("clickAt", ClickAtCommands(x, y)) EXCEPT !.x = x, !.y = y]

ClickElement(selector) ==
    /\ input.completion # "pending"
    /\ input' = [Call("clickElement", <<Evaluate("center", selector)>>)
                    EXCEPT !.selector = selector]

Type(text, delay) ==
    /\ input.completion # "pending"
    /\ input' = [Call("type", TypeCommands(text, delay))
                    EXCEPT !.text = text, !.delay = delay]

TypeInElement(selector, text, clearFirst, delay) ==
    /\ input.completion # "pending"
    /\ input' = [Call("typeInElement",
                      TypeInElementCommands(selector, text, clearFirst, delay))
                    EXCEPT !.selector = selector, !.text = text,
                           !.clearFirst = clearFirst, !.delay = delay]

\* the command or pause the method awaits completes: the host answered the
\* command, with a result or an error, or the timer of the pause fired
CommandSettles(ok) ==
    /\ input.completion = "pending"
    /\ LET awaited == input.issued[Len(input.issued)]
           outcome == ClickElementScript(awaited.selector)
       IN  /\ ~ok => awaited.command # "sleep"
           /\ input' =
                IF ~ok THEN Throw(input, HostCommandFailed, "host")
                ELSE IF awaited.script = "center"
                THEN IF outcome.exception # ""
                     THEN Throw(input, ExceptionText, outcome.exception)
                     ELSE IssueNext([input EXCEPT
                            !.todo = ClickAtCommands(outcome.x, outcome.y) \o @])
                ELSE IssueNext(input)

InputNext ==
    \/ \E c \in Coordinates : ClickAt(c[1], c[2]) /\ UNCHANGED notInput
    \/ \E selector \in Selectors : ClickElement(selector) /\ UNCHANGED notInput
    \/ \E text \in Texts, delay \in Delays : Type(text, delay) /\ UNCHANGED notInput
    \/ \E selector \in Selectors, text \in Texts, clearFirst \in BOOLEAN, delay \in Delays :
            TypeInElement(selector, text, clearFirst, delay) /\ UNCHANGED notInput
    \/ \E ok \in BOOLEAN : CommandSettles(ok) /\ UNCHANGED notInput

InputSpec == Init /\ [][InputNext]_vars

(***************************************************************************)
(* Claims about the input methods                                          *)
(***************************************************************************)

IsPrefix(s, t) == Len(s) <= Len(t) /\ \A i \in 1..Len(s) : s[i] = t[i]

\* the positions of issued that hold a command cmd
Positions(cmd) == {i \in 1..Len(input.issued) : input.issued[i].command = cmd}

\* the positions of issued that run the script named
ScriptPositions(script) == {i \in 1..Len(input.issued) : input.issued[i].script = script}

\* the pointer events of a click at (x, y)
MovePressRelease(x, y) ==
    <<[NoCommand EXCEPT !.command = "Input.dispatchMouseEvent", !.type = "mouseMoved",
                        !.x = x, !.y = y],
      [NoCommand EXCEPT !.command = "Input.dispatchMouseEvent", !.type = "mousePressed",
                        !.x = x, !.y = y],
      [NoCommand EXCEPT !.command = "Input.dispatchMouseEvent", !.type = "mouseReleased",
                        !.x = x, !.y = y]>>

\* a call that was rejected issues nothing more
NothingAfterFailure ==
    input.completion = "rejected" /\ input'.completion # "pending"
        => input'.issued = input.issued

\* at most one command is issued by a step, and none while one is awaited that
\* has not completed
OneAtATime ==
    input'.method = input.method /\ input.completion = "pending"
        => /\ Len(input'.issued) <= Len(input.issued) + 1
           /\ IsPrefix(input.issued, input'.issued)

\* C23: clickAt(x, y) dispatches move, press, release in that order, all at
\* (x, y), one at a time, each after the one before it completed; it resolves
\* after the three, and when one fails it rejects with that error and dispatches
\* none of the later ones.
C23_ClickAtMovePressRelease ==
    /\ [](input.method = "clickAt"
            => /\ IsPrefix(input.issued, MovePressRelease(input.x, input.y))
               /\ input.issued # <<>>
               /\ input.completion = "resolved"
                    => input.issued = MovePressRelease(input.x, input.y)
               /\ input.completion = "rejected" => input.error = HostCommandFailed)
    /\ [][input.method = "clickAt" => NothingAfterFailure /\ OneAtATime]_vars

\* the press of a click at (120, 210) failed after the move: no release
C23_Witness ==
    /\ input.method = "clickAt"
    /\ input.completion = "rejected"
    /\ input.issued = <<DispatchMouseEvent("mouseMoved", 120, 210),
                        DispatchMouseEvent("mousePressed", 120, 210)>>

\* the host answered every command the call issued
NoHostFailure == input.cause # "host"

\* C24 as stated: clickElement(selector), for every selector that matches an
\* element, dispatches move, press, release at the center of the element's
\* bounding box; for a selector that matches nothing it fails and dispatches no
\* pointer event.
C24_Original_ClickAtCenter ==
    input.method = "clickElement" /\ input.completion # "pending" /\ NoHostFailure
        => IF input.selector \in DOMAIN Elements
           THEN LET rect == Elements[input.selector]
                IN  /\ input.completion = "resolved"
                    /\ SubSeq(input.issued, 2, Len(input.issued))
                        = MovePressRelease(rect.left + rect.width \div 2,
                                           rect.top + rect.height \div 2)
           ELSE /\ input.completion = "rejected"
                /\ Positions("Input.dispatchMouseEvent") = {}

\* the text of the call, one character per insert, a pause after each
RECURSIVE CharByChar(_, _)
CharByChar(text, ms) ==
    IF text = <<>> THEN <<>>
    ELSE <<[NoCommand EXCEPT !.command = "Input.insertText", !.text = <<Head(text)>>],
           [NoCommand EXCEPT !.command = "sleep", !.ms = ms]>> \o CharByChar(Tail(text), ms)

\* C25: type(text, delay) with delay 0 or omitted issues one insert command
\* that carries the whole text; with delay > 0 it issues one insert command per
\* character, in text order, each followed by a pause of the delay, so that a
\* pause separates consecutive inserts.
C25_TypeBulkOrPerCharacter ==
    /\ [](input.method = "type"
            => /\ input.delay \in {Undefined, [type |-> "number", num |-> 0]}
                    => /\ input.issued
                            = <<[NoCommand EXCEPT !.command = "Input.insertText",
                                                  !.text = input.text]>>
               /\ input.delay = [type |-> "number", num |-> 50]
                    => /\ IsPrefix(input.issued, CharByChar(input.text, 50))
                       /\ input.completion = "resolved"
                            => /\ input.issued = CharByChar(input.text, 50)
                               /\ Cardinality(Positions("Input.insertText"))
                                    = Len(input.text))
    /\ [][input.method = "type" => OneAtATime]_vars

\* "hi" typed with delay 50: two inserts of one character, a pause between them
C25_Witness ==
    /\ input.method = "type"
    /\ input.text = <<"h", "i">>
    /\ input.completion = "resolved"
    /\ input.issued = <<InsertText(<<"h">>), Sleep(50), InsertText(<<"i">>), Sleep(50)>>

\* C26: typeInElement(selector, text, {clearFirst, delay}) clicks the element
\* first, then clears it only if clearFirst, then types: every command of the
\* click precedes the clear, the clear precedes every insert, there is a clear
\* only with clearFirst, and when the click fails because no element is found
\* neither the clear nor any insert is issued.
C26_ClickThenClearThenType ==
    /\ [](input.method = "typeInElement"
            => /\ input.issued[1] = [NoCommand EXCEPT !.command = "Runtime.evaluate",
                                        !.script = "center", !.selector = input.selector]
               /\ \A i \in Positions("Input.dispatchMouseEvent") \cup ScriptPositions("center") :
                    \A j \in ScriptPositions("clear") \cup Positions("Input.insertText") : i < j
               /\ \A i \in ScriptPositions("clear") :
                    \A j \in Positions("Input.insertText") : i < j
               /\ Cardinality(ScriptPositions("clear")) <= (IF input.clearFirst THEN 1 ELSE 0)
               /\ ScriptPositions("clear") \cup Positions("Input.insertText") # {}
                    => Cardinality(Positions("Input.dispatchMouseEvent")) = 3
               /\ Positions("Input.insertText") # {} /\ input.clearFirst
                    => ScriptPositions("clear") # {}
               /\ input.completion = "resolved" => Positions("Input.insertText") # {}
               /\ input.selector \notin DOMAIN Elements /\ input.completion # "pending"
                    => input.completion = "rejected" /\ Len(input.issued) = 1)
    /\ [][input.method = "typeInElement" => NothingAfterFailure /\ OneAtATime]_vars

\* the element was clicked, cleared and typed into, in that order
C26_Witness ==
    /\ input.method = "typeInElement"
    /\ input.selector = "#search"
    /\ input.clearFirst
    /\ input.completion = "resolved"
    /\ input.issued = <<Evaluate("center", "#search")>> \o ClickAtCommands(120, 210)
                        \o <<Evaluate("clear", "#search"), InsertText(input.text)>>

(***************************************************************************)
(* selectOption of src/extension/src/cdp/transport.ts: the script it       *)
(* builds, run against the element its selector matches.  Indices are      *)
(* those of JavaScript, from 0; -1 is no option.                           *)
(***************************************************************************)

Str(str) == [type |-> "string", str |-> str]

OptionValues == {"a", "b"}

OptionTexts == {"A", "B"}

\* the option elements a select may hold
OptionElements == [value : OptionValues, text : OptionTexts]

OptionLists == UNION {[1..n -> OptionElements] : n \in 0..MaxOptions}

\* the element the selector matches: a select, an input, or none
TagNames == {"SELECT", "INPUT", ""}

SelectSelectors == {"#country", "select[name='c']"}

\* options.value and options.text: undefined or a string
ValueCriteria == {Undefined} \cup {Str(v) : v \in OptionValues}

TextCriteria == {Undefined} \cup {Str(t) : t \in OptionTexts}

\* options.index: undefined or a number
IndexCriteria == {Undefined} \cup {Number(i) : i \in 0..MaxOptions}

\* Array.prototype.find: the index of the first element that satisfies, or -1
FirstIndex(matching) ==
    IF matching = {} THEN -1 ELSE (CHOOSE i \in matching : \A j \in matching : i <= j) - 1

\* Array.from(select.options).find(opt => opt.value === value)
FindByValue(options, value) ==
    FirstIndex({i \in 1..Len(options) : options[i].value = value})

\* Array.from(select.options).find(opt => opt.text === text)
FindByText(options, text) ==
    FirstIndex({i \in 1..Len(options) : options[i].text = text})

\* select.options[index]
OptionAt(options, index) == IF index \in 0..(Len(options) - 1) THEN index ELSE -1

\* the three lookups of the script, each spliced in only when its criterion is
\* not undefined, the later ones run only if (!optionToSelect)
OptionToSelect(options, value, text, index) ==
    LET byValue == IF value.type = "undefined" THEN -1 ELSE FindByValue(options, value.str)
        byText == IF text.type = "undefined" THEN -1 ELSE FindByText(options, text.str)
        byIndex == IF index.type = "undefined" THEN -1 ELSE OptionAt(options, index.num)
    IN  IF byValue # -1 THEN byValue
        ELSE IF byText # -1 THEN byText
        ELSE byIndex

\* select.value = optionToSelect.value: the setter of the DOM selects the first
\* option whose value equals the one assigned
SetValue(options, optionToSelect) ==
    FindByValue(options, options[optionToSelect + 1].value)

\* a document is loaded: the element the selector will match and its options
LoadDocument(tagName, options, selectedIndex) ==
    /\ ~select.loaded
    /\ tagName # "SELECT" => options = <<>>
    /\ selectedIndex < Len(options)
    /\ options # <<>> => selectedIndex >= 0
    /\ select' = [NoSelect EXCEPT !.loaded = TRUE, !.tagName = tagName,
                                  !.options = options, !.selectedIndex = selectedIndex]

\* selectOption(selector, {value, text, index}): the script runs in the page
SelectOption(selector, value, text, index) ==
    /\ select.loaded
    /\ LET call == [select EXCEPT !.selector = selector, !.value = value, !.text = text,
                                  !.index = index, !.before = select.selectedIndex,
                                  !.events = <<>>, !.returned = -1, !.cause = ""]
           optionToSelect == OptionToSelect(select.options, value, text, index)
       IN  select' =
            IF selector \in SelectorsWithQuote
            THEN [call EXCEPT !.completion = "rejected", !.cause = "SyntaxError"]
            ELSE IF select.tagName # "SELECT"
            THEN [call EXCEPT !.completion = "rejected",
                              !.cause = "Element is not a SELECT"]
            ELSE IF optionToSelect = -1
            THEN [call EXCEPT !.completion = "rejected", !.cause = "Option not found"]
            ELSE [call EXCEPT
                    !.completion = "resolved",
                    !.selectedIndex = SetValue(select.options, optionToSelect),
                    !.events = <<"change", "input">>,
                    !.returned = optionToSelect]

SelectNext ==
    \/ \E tagName \in TagNames, options \in OptionLists, selectedIndex \in -1..MaxOptions :
            LoadDocument(tagName, options, selectedIndex) /\ UNCHANGED notSelect
    \/ \E selector \in SelectSelectors, value \in ValueCriteria, text \in TextCriteria,
          index \in IndexCriteria :
            SelectOption(selector, value, text, index) /\ UNCHANGED notSelect

SelectSpec == Init /\ [][SelectNext]_vars

(***************************************************************************)
(* Claims about selectOption                                               *)
(***************************************************************************)

\* the options a criterion matches, as 0-based indices, first match first
MatchesOf(criterion, field) ==
    IF criterion.type = "undefined" THEN {}
    ELSE {i - 1 : i \in {j \in 1..Len(select.options) :
                            select.options[j][field] = criterion.str}}

Least(indices) == CHOOSE i \in indices : \A j \in indices : i <= j

\* the option the claim resolves: by value, else by text, else by index
ResolvedOption ==
    IF MatchesOf(select.value, "value") # {} THEN Least(MatchesOf(select.value, "value"))
    ELSE IF MatchesOf(select.text, "text") # {} THEN Least(MatchesOf(select.text, "text"))
    ELSE IF select.index.type = "number" /\ select.index.num < Len(select.options)
    THEN select.index.num
    ELSE -1

\* C27 as stated: selectOption selects the option resolved by value first, then
\* by text, then by index, and fires change and input; when the target is not a
\* select element or no supplied criterion matches an option it fails, leaves the
\* selection as it was and fires no event.
C27_Original_FirstMatchingCriterionWins ==
    select.completion # ""
        => IF select.tagName = "SELECT" /\ ResolvedOption # -1
           THEN /\ select.completion = "resolved"
                /\ select.selectedIndex = ResolvedOption
                /\ select.events = <<"change", "input">>
           ELSE /\ select.completion = "rejected"
                /\ select.selectedIndex = select.before
                /\ select.events = <<>>

(***************************************************************************)
(* The console capture: enableConsoleCapture and getConsoleLogs of         *)
(* src/extension/src/cdp/transport.ts, and the collector the script of     *)
(* getConsoleLogs installs in the page's window.  The script of a          *)
(* Runtime.evaluate and each console call or event of the page run to      *)
(* completion on the page's one thread, so each is one step.  An entry is  *)
(* the number of the output it records, with the source that wrote it.     *)
(***************************************************************************)

ConsoleTypes == {"log", "info", "warn", "error", "debug"}

\* the window events the collector listens to
WindowEvents == {"error", "unhandledrejection"}

Entry(id, source) == [id |-> id, source |-> source]

\* if (logs.length > window.__agentsCCMaxLogs) logs.shift()
Limit(logs) == IF Len(logs) > MaxLogs THEN Tail(logs) ELSE logs

\* mutant of Drained: the read leaves the buffer as it is
DrainedKept(logs) == logs

\* window.__agentsCCConsoleLogs = [] after the slice
Drained(logs) == <<>>

\* the ids of the entries a step dropped from the front of the buffer
Dropped(before, after) ==
    {before[i].id : i \in 1..Len(before)} \ {after[i].id : i \in 1..Len(after)}

RECURSIVE PushTimes(_, _, _)
\* every wrapper around a console method pushes and limits, innermost last
PushTimes(logs, entry, times) ==
    IF times = 0 THEN logs
    ELSE PushTimes(Limit(Append(logs, entry)), entry, times - 1)

RECURSIVE Repeat(_, _)
Repeat(x, times) == IF times = 0 THEN <<>> ELSE <<x>> \o Repeat(x, times - 1)

\* enableConsoleCapture(): Runtime.enable and Log.enable were sent and answered
EnableConsoleCapture ==
    /\ ~console.enabled
    /\ console' = [console EXCEPT !.enabled = TRUE]

\* the page calls console.log, info, warn, error or debug: the wrappers, when
\* installed, record it
ConsoleCall(type) ==
    /\ console.produced < MaxOutputs
    /\ LET id == console.produced + 1
           logs == PushTimes(console.logs, Entry(id, type), console.wrappers)
       IN  console' = [console EXCEPT
                !.produced = id,
                !.logs = logs,
                !.appended = @ \o Repeat(id, console.wrappers),
                !.evicted = @ \cup Dropped(Append(console.logs, Entry(id, type)), logs),
                !.afterEnable = IF console.enabled THEN @ \cup {id} ELSE @]

\* an uncaught error or an unhandled rejection in the page: the listener, when
\* installed, records it
WindowEvent(event) ==
    /\ console.produced < MaxOutputs
    /\ LET id == console.produced + 1
       IN  console' = [console EXCEPT
                !.produced = id,
                !.logs = IF console.installed THEN Append(@, Entry(id, event)) ELSE @,
                !.appended = IF console.installed THEN Append(@, id) ELSE @,
                !.afterEnable = IF console.enabled THEN @ \cup {id} ELSE @]

\* getConsoleLogs(): the script installs the collector if there is none, then
\* returns the buffer and replaces it by an empty one
GetConsoleLogs ==
    /\ Len(console.reads) < MaxReads
    /\ LET installs == ~console.installed
           logs == IF installs THEN <<>> ELSE console.logs
       IN  console' = [console EXCEPT
                !.installed = TRUE,
                !.wrappers = IF installs THEN @ + 1 ELSE @,
                !.reads = Append(@, logs),
                !.logs = Drained(logs)]

ConsoleNext ==
    \/ EnableConsoleCapture /\ UNCHANGED notConsole
    \/ \E type \in ConsoleTypes : ConsoleCall(type) /\ UNCHANGED notConsole
    \/ \E event \in WindowEvents : WindowEvent(event) /\ UNCHANGED notConsole
    \/ GetConsoleLogs /\ UNCHANGED notConsole

ConsoleSpec == Init /\ [][ConsoleNext]_vars

(***************************************************************************)
(* Claims about the console capture                                        *)
(***************************************************************************)

\* C28 as stated: the console-log buffer never holds more entries than the cap.
C28_Original_NeverMoreThanCap == Len(console.logs) <= MaxLogs

RECURSIVE Flatten(_)
Flatten(seqs) == IF seqs = <<>> THEN <<>> ELSE Head(seqs) \o Flatten(Tail(seqs))

Ids(entries) == [i \in 1..Len(entries) |-> entries[i].id]

\* the ids the reads so far returned, in the order returned
Returned == Ids(Flatten(console.reads))

\* C29 as stated: once enableConsoleCapture() has completed the interceptor is
\* installed, it is installed at most once, and every output the page produced
\* after enableConsoleCapture() completed is recorded once: it is held by the
\* buffer, was returned by a read, or was evicted by the cap.
C29_Original_EnableInstalls ==
    /\ console.enabled => console.installed
    /\ console.wrappers <= 1
    /\ \A id \in console.afterEnable :
        \/ id \in console.evicted
        \/ Cardinality({i \in 1..Len(Returned \o Ids(console.logs)) :
                            (Returned \o Ids(console.logs))[i] = id}) = 1

NotEvicted(id) == id \notin console.evicted

\* C30: getConsoleLogs returns the entries the buffer holds, in append order,
\* and leaves it empty, in one step of the page: the reads so far followed by
\* the buffer are the appended entries that were not evicted, each once, in
\* append order, whatever the page appended in between.
C30_DrainIsAtomic ==
    /\ [](/\ Returned \o Ids(console.logs) = SelectSeq(console.appended, NotEvicted)
          /\ \A i, j \in 1..Len(console.appended) :
                console.appended[i] = console.appended[j] => i = j)
    /\ [][Len(console'.reads) > Len(console.reads)
            => /\ console'.logs = <<>>
               /\ console.installed
                    => console'.reads[Len(console'.reads)] = console.logs]_vars

\* two reads with appends before, between and after them: each entry in one
\* read, the second read not empty
C30_Witness ==
    /\ Len(console.reads) = 2
    /\ console.reads[2] # <<>>
    /\ console.logs # <<>>
    /\ console.evicted # {}

(***************************************************************************)
(* The tab registry: browserContext, which src/ does not contain (only its *)
(* callers in src/extension/src/background/index.ts), modelled from the    *)
(* specification, over Pages and transports that follow                    *)
(* src/extension/src/cdp/transport.ts.  The host closes tabs and delivers  *)
(* chrome.debugger.onDetach and chrome.tabs.onRemoved in either order; its *)
(* answers to attach, sendCommand and detach arrive as it gives them.      *)
(***************************************************************************)

\* new Page(tabId), with the flags of its transport
NewPage(t) == [tabId |-> t, attached |-> FALSE, initialized |-> FALSE, registered |-> FALSE]

\* a call of getActivePage
ActivePageRequest(t, o, pc, completion, error, cause) ==
    [tab |-> t, object |-> o, pc |-> pc, completion |-> completion, error |-> error,
     cause |-> cause]

\* why the host denies chrome.debugger.attach for tab t
AttachDenialCause(t) ==
    IF t \notin host.open THEN "tabClosed"
    ELSE IF host.debuggee[t] # NoPage THEN "alreadyAttached"
    ELSE "denied"

\* removeClosedTab evicts the registry entry
RegistryAfterRemoval(t) == MapDelete(pages, t)

\* getActivePage(): the Page of the active tab when the registry holds one;
\* otherwise a new Page whose initialize() runs up to chrome.debugger.attach
ContextGetActivePage ==
    /\ Len(requests) < MaxPages
    /\ IF activeTargetId \in DOMAIN pages
       THEN /\ requests' = Append(requests,
                    ActivePageRequest(activeTargetId, pages[activeTargetId], "done",
                                      "resolved", "", ""))
            /\ UNCHANGED objects
       ELSE /\ objects' = Append(objects, NewPage(activeTargetId))
            /\ requests' = Append(requests,
                    ActivePageRequest(activeTargetId, Len(objects) + 1, "attaching",
                                      "pending", "", ""))
    /\ UNCHANGED <<pages, activeTargetId, removal, host>>

\* the host answers chrome.debugger.attach of call r: attach() and initialize()
\* go on up to the three enable commands
ContextAttachSettles(r, granted) ==
    /\ r \in 1..Len(requests)
    /\ requests[r].pc = "attaching"
    /\ LET t == requests[r].tab
           o == requests[r].object
       IN  /\ granted => t \in host.open /\ host.debuggee[t] = NoPage
           /\ IF granted
              THEN /\ host' = [host EXCEPT !.debuggee[t] = o]
                   /\ objects' = [objects EXCEPT ![o].attached = TRUE,
                                                 ![o].registered = TRUE]
                   /\ requests' = [requests EXCEPT ![r].pc = "enabling"]
              ELSE /\ objects' = [objects EXCEPT ![o].attached = AfterAttachDenied(@)]
                   /\ requests' = [requests EXCEPT
                        ![r] = ActivePageRequest(t, o, "done", "rejected",
                                                 HostAttachDenied, AttachDenialCause(t))]
                   /\ UNCHANGED host
    /\ UNCHANGED <<pages, activeTargetId, removal>>

\* the host answered Page.enable, DOM.enable and Runtime.enable of call r:
\* initialize() returns and the registry takes the Page, or initialize() throws
ContextEnableSettles(r, ok) ==
    /\ r \in 1..Len(requests)
    /\ requests[r].pc = "enabling"
    /\ LET t == requests[r].tab
           o == requests[r].object
       IN  /\ ok => host.debuggee[t] = o
           /\ IF ok
              THEN /\ objects' = [objects EXCEPT ![o].initialized = TRUE]
                   /\ pages' = MapSet(pages, t, o)
                   /\ requests' = [requests EXCEPT
                        ![r] = ActivePageRequest(t, o, "done", "resolved", "", "")]
              ELSE /\ requests' = [requests EXCEPT
                        ![r] = ActivePageRequest(t, o, "done", "rejected",
                                    IF host.debuggee[t] = o THEN HostCommandFailed
                                    ELSE HostNotAttached,
                                    IF t \in host.open THEN "commandFailed"
                                    ELSE "tabClosed")]
                   /\ UNCHANGED <<pages, objects>>
    /\ UNCHANGED <<activeTargetId, removal, host>>

\* switchToTab(tabId): the tab is in the host's tab list, the pointer moves
SwitchToTab(t) ==
    /\ t \in host.open
    /\ t # activeTargetId
    /\ activeTargetId' = t
    /\ UNCHANGED <<pages, objects, requests, removal, host>>

\* the user closes tab t: the host drops its debugger and raises
\* chrome.debugger.onDetach, when it had one, and chrome.tabs.onRemoved
CloseTab(t) ==
    /\ t \in host.open
    /\ host' = [open |-> host.open \ {t},
                debuggee |-> [host.debuggee EXCEPT ![t] = NoPage],
                events |-> host.events \cup {<<"onRemoved", t>>}
                    \cup (IF host.debuggee[t] # NoPage THEN {<<"onDetach", t>>} ELSE {})]
    /\ UNCHANGED <<pages, activeTargetId, objects, requests, removal>>

\* chrome.debugger.onDetach for tab t: handleDetach of every transport that has
\* its handlers registered
OnDetach(t) ==
    /\ <<"onDetach", t>> \in host.events
    /\ host' = [host EXCEPT !.events = @ \ {<<"onDetach", t>>}]
    /\ objects' = [o \in 1..Len(objects) |->
                    IF objects[o].registered /\ objects[o].tabId = t
                    THEN [objects[o] EXCEPT !.attached = FALSE]
                    ELSE objects[o]]
    /\ UNCHANGED <<pages, activeTargetId, requests, removal>>

\* chrome.tabs.onRemoved for tab t: removeClosedTab(t) closes the Page the
\* registry holds, up to the await of chrome.debugger.detach, and evicts it
RemoveClosedTab(t) ==
    /\ <<"onRemoved", t>> \in host.events
    /\ host' = [host EXCEPT !.events = @ \ {<<"onRemoved", t>>}]
    /\ IF t \notin DOMAIN pages
       THEN /\ removal' = [removal EXCEPT ![t] = [NoRemoval EXCEPT !.pc = "done"]]
            /\ UNCHANGED <<pages, objects>>
       ELSE LET o == pages[t]
            IN  IF objects[o].initialized /\ objects[o].attached
                THEN /\ objects' = [objects EXCEPT ![o].registered = FALSE]
                     /\ removal' = [removal EXCEPT
                            ![t] = [pc |-> "detaching", object |-> o, hostError |-> ""]]
                     /\ UNCHANGED pages
                ELSE /\ objects' = [objects EXCEPT ![o].initialized = FALSE]
                     /\ pages' = RegistryAfterRemoval(t)
                     /\ removal' = [removal EXCEPT
                            ![t] = [pc |-> "done", object |-> o, hostError |-> ""]]
    /\ UNCHANGED <<activeTargetId, requests>>

\* the host answers chrome.debugger.detach for the closed tab, with an error:
\* detach(), close() and removeClosedTab go on
RemoveSettles(t) ==
    /\ removal[t].pc = "detaching"
    /\ LET o == removal[t].object
           hostOk == host.debuggee[t] = o
           completion == DetachCompletion(hostOk)
           hostError == IF hostOk THEN "" ELSE HostNotAttached
       IN  IF completion = "resolved"
           THEN /\ objects' = [objects EXCEPT ![o].attached = FALSE,
                                              ![o].initialized = FALSE]
                /\ pages' = RegistryAfterRemoval(t)
                /\ removal' = [removal EXCEPT
                        ![t] = [pc |-> "done", object |-> o, hostError |-> hostError]]
           ELSE /\ removal' = [removal EXCEPT
                        ![t] = [pc |-> "failed", object |-> o, hostError |-> hostError]]
                /\ UNCHANGED <<pages, objects>>
    /\ UNCHANGED <<activeTargetId, requests, host>>

ContextNext ==
    \/ ContextGetActivePage /\ UNCHANGED notContext
    \/ \E r \in 1..MaxPages, granted \in BOOLEAN :
            ContextAttachSettles(r, granted) /\ UNCHANGED notContext
    \/ \E r \in 1..MaxPages, ok \in BOOLEAN :
            ContextEnableSettles(r, ok) /\ UNCHANGED notContext
    \/ \E t \in Tabs : SwitchToTab(t) /\ UNCHANGED notContext
    \/ \E t \in Tabs : CloseTab(t) /\ UNCHANGED notContext
    \/ \E t \in Tabs : OnDetach(t) /\ UNCHANGED notContext
    \/ \E t \in Tabs : RemoveClosedTab(t) /\ UNCHANGED notContext
    \/ \E t \in Tabs : RemoveSettles(t) /\ UNCHANGED notContext

ContextSpec == Init /\ [][ContextNext]_vars

(***************************************************************************)
(* Claims about the tab-management actions and about closing a Page        *)
(***************************************************************************)

\* the actions of executeAction that manage tabs
TabActions == {"get_tabs", "switch_tab"}

\* C32 as stated: handling switch_tab or get_tabs never asks for the active
\* page, so it creates no Page and attaches no session, and with its parameters
\* given it succeeds when its own registry operation succeeds, also when the
\* active tab cannot be attached.
C32_Original_TabActionsAttachNothing ==
    mcp.action \in TabActions =>
        /\ "getActivePage" \notin Range(mcp.trace)
        /\ Answered /\ mcp.params = "given"
            /\ Range(mcp.raised) \cap {"getAllTabsInfo", "switchToTab"} = {}
            => mcp.result.success

\* C35 as stated: once close() has returned, the Page's session is Detached
\* and the Page is uninitialized, whatever initialize() did before.
C35_Original_CloseDestroysSession ==
    page.op = "close" /\ page.pc = "idle" => ~attached /\ ~initialized

(***************************************************************************)
(* Claims about correlation ids, replaced connections and deliveries       *)
(***************************************************************************)

\* C34: the n-th Request the bridge transmits carries the id req_n, on whatever
\* connection it goes out, so the ids issued are pairwise distinct and strictly
\* increasing; the counter equals the number of ids issued and no connection
\* accepted, closing or closed changes it; and a call is settled by a Response
\* only when the Response carries the call's own id, so a Response for a call of
\* an earlier connection never settles a call issued after a reconnection.
C34_IdsDistinctAndIncreasing ==
    /\ [](/\ requestIdCounter = Len(sent)
          /\ \A n \in 1..Len(sent) : sent[n].msg.id = RequestId(n)
          /\ \A j, k \in CallIds :
                (j < k /\ calls[j].id # NoId /\ calls[k].id # NoId) =>
                    /\ calls[j].id # calls[k].id
                    /\ calls[k].reply # NoMessage => calls[k].reply.id # calls[j].id)
    /\ [][(readyState' # readyState \/ extensionClient' # extensionClient) =>
            requestIdCounter' = requestIdCounter]_vars

\* C34 witness: req_1 went out on the first connection and req_2 on the one
\* that replaced it; the Response for req_1 has settled the first call and the
\* second call still waits
C34_Witness ==
    /\ Len(sent) = 2
    /\ sent[1] = [conn |-> 1, msg |-> [type |-> "REQUEST", id |-> "req_1",
                                        action |-> "screenshot"]]
    /\ sent[2].conn = 2
    /\ sent[2].msg.id = "req_2"
    /\ calls[1].state = "resolved"
    /\ calls[1].reply.id = "req_1"
    /\ calls[2].state = "pending"
    /\ calls[2].timer = "armed"
    /\ DOMAIN pendingRequests = {"req_2"}

\* C36: the close of a connection that the slot does not hold leaves the slot
\* as it was; the slot goes from a connection to empty only in the step that
\* closes that very connection; and a tool call made after the replaced
\* connection closed, while the replacing one is open, is transmitted on the
\* replacing connection.
C36_StaleCloseKeepsSlot ==
    [][/\ \A ws \in Conns :
            (readyState[ws] # "CLOSED" /\ readyState'[ws] = "CLOSED"
                /\ extensionClient # ws) => extensionClient' = extensionClient
       /\ (extensionClient # NoClient /\ extensionClient' = NoClient) =>
            /\ readyState[extensionClient] # "CLOSED"
            /\ readyState'[extensionClient] = "CLOSED"
       /\ (IsCallStep /\ ~NoPeer /\ \E ws \in Conns \ {extensionClient} :
                                        readyState[ws] = "CLOSED") =>
            /\ NewestCall.state = "pending"
            /\ sent'[Len(sent')].conn = extensionClient
            /\ sent'[Len(sent')].msg.id = NewestCall.id]_vars

\* C36 witness: the first connection carried a Request, was replaced and has
\* closed; the slot holds the second connection, still open, and the next
\* Request went out on it
C36_Witness ==
    /\ readyState = [c \in Conns |-> IF c = 1 THEN "CLOSED" ELSE IF c = 2 THEN "OPEN" ELSE "NONE"]
    /\ extensionClient = 2
    /\ Len(sent) = 2
    /\ sent[1].conn = 1
    /\ sent[2].conn = 2
    /\ calls[1].state = "pending"
    /\ calls[2].state = "pending"

\* C37: a delivery of a message that is no Response for a pending id (data that
\* does not parse, a message of another type, a Response whose id was never
\* issued, or whose call has been settled or has timed out, a repeated Response)
\* leaves the pending-request map, every call with its timer and promise, the
\* slot, the counter and the Requests transmitted as they were.
C37_UnmatchedMessageChangesNothing ==
    [][\/ /\ pendingRequests' = pendingRequests
          /\ calls' = calls
          /\ UNCHANGED <<extensionClient, readyState, requestIdCounter, sent>>
       \/ \A ws \in Conns, message \in DeliveredMessages :
            ~(ClassOf(message) # "matched" /\ Receive(ws, message))]_vars

\* C37 witness: the message delivered last was a Response whose id is pending
\* no longer, while one call is resolved and another still waits with its
\* timer armed
C37_Witness ==
    /\ received.class = "stale"
    /\ \E j, k \in CallIds :
        /\ calls[j].state = "resolved"
        /\ calls[k].state = "pending"
        /\ calls[k].timer = "armed"
        /\ calls[k].id \in DOMAIN pendingRequests

\* C38: a Response with a payload whose id is pending, delivered on any open
\* connection, removes that id's entry, clears the call's timer and settles the
\* call with that Response, whether or not the connection is the one in the
\* slot or the one the Request went out on.
C38_MatchedOnAnyConnection ==
    [][\A ws \in Conns, message \in DeliveredMessages :
            (ClassOf(message) = "matched" /\ message.payload.present
                /\ Receive(ws, message)) =>
                LET k == pendingRequests[message.id]
                IN  /\ message.id \notin DOMAIN pendingRequests'
                    /\ calls'[k].timer = "cleared"
                    /\ calls'[k].reply = message
                    /\ calls'[k].state \in {"resolved", "rejected"}]_vars

\* C38 witness: the second call's Request went out on the second connection,
\* its Response arrived last, on the first connection, which the second had
\* replaced in the slot, and resolved it; the first call still waits
C38_Witness ==
    /\ Len(calls) = 2
    /\ Len(sent) = 2
    /\ sent[1] = [conn |-> 1, msg |-> [type |-> "REQUEST", id |-> calls[1].id,
                                        action |-> calls[1].action]]
    /\ sent[2] = [conn |-> 2, msg |-> [type |-> "REQUEST", id |-> calls[2].id,
                                        action |-> calls[2].action]]
    /\ extensionClient = 2
    /\ received = [conn |-> 1, class |-> "matched"]
    /\ calls[2].state = "resolved"
    /\ calls[1].state = "pending"
    /\ calls[1].timer = "armed"

(***************************************************************************)
(* Claim about the action the dispatcher forwards                          *)
(***************************************************************************)

\* the action the claim says is forwarded for a tool name
ClaimedAction(name) == IF name \in DOMAIN mapping THEN mapping[name] ELSE name

\* C39 as stated: every call that was transmitted went out as one Request whose
\* action is the mapped action for a catalogue tool and the tool name itself,
\* unchanged, for any other name.
C39_Original_ForwardedUnchanged ==
    \A k \in CallIds :
        calls[k].id # NoId =>
            \E n \in 1..Len(sent) :
                sent[n].msg = [type |-> "REQUEST", id |-> calls[k].id,
                               action |-> ClaimedAction(calls[k].tool)]

(***************************************************************************)
(* Claims about the tab registry                                           *)
(***************************************************************************)

\* C31: once removeClosedTab has completed for a closed tab, the registry holds
\* no entry for that tab and the session of the Page it held is Detached;
\* removeClosedTab never fails, also when the host rejects the detach of the
\* tab that is gone, and a tab that was evicted stays out of the registry.
C31_ClosedTabEvictedAndDetached ==
    \A t \in Tabs :
        /\ removal[t].pc # "failed"
        /\ removal[t].pc = "done" =>
            /\ t \notin DOMAIN pages
            /\ t \notin host.open
            /\ removal[t].object # NoPage =>
                    /\ ~objects[removal[t].object].attached
                    /\ ~objects[removal[t].object].initialized

\* C31 witness: the tab of an attached, registered Page was closed;
\* removeClosedTab ran before the host's detach event was delivered, the host
\* rejected the detach, and the entry is gone and the session Detached
C31_Witness ==
    \E t \in Tabs :
        /\ removal[t] = [pc |-> "done", object |-> 1, hostError |-> HostNotAttached]
        /\ <<"onDetach", t>> \in host.events
        /\ t \notin DOMAIN pages
        /\ objects[1] = [NewPage(t) EXCEPT !.attached = FALSE]
        /\ requests[1].completion = "resolved"

\* the Pages of tab t that hold the host's debugger or have asked for it
AttachingOrAttached(t) ==
    {o \in 1..Len(objects) :
        /\ objects[o].tabId = t
        /\ \/ objects[o].attached
           \/ \E r \in 1..Len(requests) :
                requests[r].object = o /\ requests[r].pc = "attaching"}

\* C33 as stated: at most one Page of a tab has asked the host to attach or is
\* attached, so callers that ask for the active page concurrently share one
\* Page and one host attach, and no caller fails because the tab's debugger is
\* already held by a Page of this registry.
C33_Original_OnePageOneAttach ==
    /\ \A t \in Tabs : Cardinality(AttachingOrAttached(t)) <= 1
    /\ \A r \in 1..Len(requests) : requests[r].cause # "alreadyAttached"

====
